---- MODULE Spec2Model ----
(***************************************************************************)
(* Region-to-partition resolution of the endpoint library                  *)
(* (rust-runtime/inlineable/src/endpoint_lib/partition.rs): the partition  *)
(* resolver, its three-tier matching, the override merge, and the JSON     *)
(* catalog loader; followed by the EventConnector of the runtime's test    *)
(* utilities and the parser of the credential process provider.            *)
(*                                                                         *)
(* Option<T> is modelled as a set with at most one element: None is {}     *)
(* and Some(x) is {x}.                                                     *)
(***************************************************************************)
EXTENDS Integers, Sequences, FiniteSets, TLC

VARIABLES
    partitions,   \* PartitionResolver.partitions : Vec<PartitionMetadata>
    pc,           \* position of the (single) caller: "idle" or "done"
    region,       \* the region argument of the last resolve_partition call
    result,       \* Option<Partition> returned by the last call
    e,            \* the caller's DiagnosticCollector (sequence of messages)
    calls,        \* concurrent callers of a shared resolver: per caller the
                  \* position in resolve_partition and its locals
    partition_dot_json,  \* the catalog text given to new_from_json
    loaded,       \* Option of the outcome of new_from_json
    events,       \* the ConnectionEvents given to EventConnector::new
    data,         \* EventConnector.data : the events still to serve
    requests,     \* EventConnector.requests : Vec<ValidateRequest>
    futures,      \* the HttpConnectorFuture returned by each call, in call order
    asserted,     \* Option of the outcome of assert_requests_match and the
                  \* ignore_headers it was called with
    clones,       \* concurrent calls on clones of one EventConnector: per
                  \* clone the position in call and its locals
    process_output,      \* what the external credential process does when run
    profile_account_id,  \* CredentialProcessProvider.profile_account_id
    provider_pc,         \* position in CredentialProcessProvider::credentials
    parsed,       \* Option of the return value of
                  \* parse_credential_process_json_credentials
    provided      \* Option of the return value of credentials()

resolver_vars ==
    <<partitions, pc, region, result, e, calls, partition_dot_json, loaded>>

connector_vars == <<events, data, requests, futures, asserted, clones>>

provider_vars ==
    <<process_output, profile_account_id, provider_pc, parsed, provided>>

vars == <<resolver_vars, connector_vars, provider_vars>>

-----------------------------------------------------------------------------
(* Bounds *)

MaxPartitions == 2
MaxDiagnostics == 2
NumCallers == 2

-----------------------------------------------------------------------------
(* Option helpers *)

None == {}

Some(x) == {x}

unwrap(o) == CHOOSE x \in o : TRUE

unwrap_or(o, d) == IF o = None THEN d ELSE unwrap(o)

-----------------------------------------------------------------------------
(* Data model *)

Fields ==
    {"name", "dns_suffix", "dual_stack_dns_suffix",
     "supports_fips", "supports_dual_stack", "implicit_global_region"}

DEFAULT_OVERRIDE ==
    [name |-> None, dns_suffix |-> None, dual_stack_dns_suffix |-> None,
     supports_fips |-> None, supports_dual_stack |-> None,
     implicit_global_region |-> None]

(* The region strings resolved in the model. *)
Regions == {"us-east-1", "mars-east-2", "other-west-2"}

(* regex_lite::Regex: a compiled regex is represented by its pattern; its  *)
(* language is given on the region strings of the model.                   *)
AwsRegex == "^(us|eu|ap|sa|ca|me|af)-\\w+-\\d+$"

OtherRegex == "^(other)-\\w+-\\d+$"

is_match(re, s) ==
    CASE re = AwsRegex -> s \in {"us-east-1", "af-south-1"}
      [] re = OtherRegex -> s \in {"other-west-2"}
      [] re = "^cn\\-\\w+\\-\\d+$" -> s \in {"cn-north-1"}
      [] OTHER -> FALSE

-----------------------------------------------------------------------------
(* Partition metadata used by the builder path (add_partition) *)

AwsOutputs ==
    [name |-> "aws", dns_suffix |-> "amazonaws.com",
     dual_stack_dns_suffix |-> "api.aws", supports_fips |-> TRUE,
     supports_dual_stack |-> TRUE, implicit_global_region |-> "us-east-1"]

OtherOutputs ==
    [name |-> "other", dns_suffix |-> "other.amazonaws.com",
     dual_stack_dns_suffix |-> "other.aws", supports_fips |-> FALSE,
     supports_dual_stack |-> TRUE, implicit_global_region |-> "other-south-2"]

new_suffix == [DEFAULT_OVERRIDE EXCEPT !.dns_suffix = Some("mars.aws")]

(* An override that sets every field except dns_suffix. *)
all_but_suffix ==
    [name |-> Some("mars"), dns_suffix |-> None,
     dual_stack_dns_suffix |-> Some("mars.api.aws"),
     supports_fips |-> Some(FALSE), supports_dual_stack |-> Some(FALSE),
     implicit_global_region |-> Some("mars-east-2")]

NoRegions == [r \in {} |-> DEFAULT_OVERRIDE]

RegionMaps ==
    { NoRegions,
      [r \in {"mars-east-2"} |-> new_suffix],
      [r \in {"us-east-1"} |-> DEFAULT_OVERRIDE],
      [r \in {"us-east-1", "mars-east-2"} |->
          IF r = "us-east-1" THEN all_but_suffix ELSE DEFAULT_OVERRIDE] }

PartitionPool ==
    [id : {"aws", "other"},
     region_regex : {AwsRegex, OtherRegex},
     regions : RegionMaps,
     outputs : {AwsOutputs, OtherOutputs}]

-----------------------------------------------------------------------------
(* PartitionMetadata::explicit_match / regex_match *)

explicit_match(part, r) ==
    IF r \in DOMAIN part.regions
    THEN Some([base |-> part, region_override |-> Some(part.regions[r])])
    ELSE None

regex_match(part, r) ==
    IF is_match(part.region_regex, r)
    THEN Some([base |-> part, region_override |-> None])
    ELSE None

(* Mutant of explicit_match_partition: keeps the last match, not the first. *)
RECURSIVE explicit_match_partition_last(_, _, _)
explicit_match_partition_last(parts, r, i) ==
    IF i > Len(parts) THEN None
    ELSE IF explicit_match_partition_last(parts, r, i + 1) # None
         THEN explicit_match_partition_last(parts, r, i + 1)
    ELSE explicit_match(parts[i], r)

(* self.partitions.iter().flat_map(|part| part.explicit_match(region))     *)
(* followed by .next(): the first Some in catalog order, scanning from i.   *)
RECURSIVE explicit_match_partition(_, _, _)
explicit_match_partition(parts, r, i) ==
    IF i > Len(parts) THEN None
    ELSE IF explicit_match(parts[i], r) # None THEN explicit_match(parts[i], r)
    ELSE explicit_match_partition(parts, r, i + 1)

RECURSIVE regex_match_partition(_, _, _)
regex_match_partition(parts, r, i) ==
    IF i > Len(parts) THEN None
    ELSE IF regex_match(parts[i], r) # None THEN regex_match(parts[i], r)
    ELSE regex_match_partition(parts, r, i + 1)

(* Mutant of find_aws: the last partition whose id is "aws". *)
RECURSIVE find_aws_last(_, _)
find_aws_last(parts, i) ==
    IF i > Len(parts) THEN None
    ELSE IF find_aws_last(parts, i + 1) # None THEN find_aws_last(parts, i + 1)
    ELSE IF parts[i].id = "aws" THEN Some(parts[i])
    ELSE None

(* Mutant of find_aws: compares the name in the outputs, not the id. *)
RECURSIVE find_aws_by_name(_, _)
find_aws_by_name(parts, i) ==
    IF i > Len(parts) THEN None
    ELSE IF parts[i].outputs.name = "aws" THEN Some(parts[i])
    ELSE find_aws_by_name(parts, i + 1)

(* self.partitions.iter().find(|p| p.id == "aws") *)
RECURSIVE find_aws(_, _)
find_aws(parts, i) ==
    IF i > Len(parts) THEN None
    ELSE IF parts[i].id = "aws" THEN Some(parts[i])
    ELSE find_aws(parts, i + 1)

(* DiagnosticCollector::report_error *)
report_error(collector, msg) == Append(collector, msg)

(* Mutant of select: the regex tier is tried before the explicit tier. *)
select_regex_first(parts, r) ==
    IF regex_match_partition(parts, r, 1) # None
    THEN regex_match_partition(parts, r, 1)
    ELSE explicit_match_partition(parts, r, 1)

(* explicit_match_partition.next().or_else(|| regex_match_partition.next()) *)
select(parts, r) ==
    IF explicit_match_partition(parts, r, 1) # None
    THEN explicit_match_partition(parts, r, 1)
    ELSE regex_match_partition(parts, r, 1)

(* Mutant of aws_fallback: the fallback applies one of the partition's      *)
(* region overrides.                                                        *)
aws_fallback_with_override(parts, collector) ==
    IF find_aws(parts, 1) # None
    THEN LET p == unwrap(find_aws(parts, 1)) IN
         [sel |-> Some([base |-> p,
                        region_override |->
                            IF DOMAIN p.regions = {} THEN None
                            ELSE Some(p.regions[CHOOSE k \in DOMAIN p.regions : TRUE])]),
          e |-> collector]
    ELSE [sel |-> None, e |-> report_error(collector, "no AWS partition!")]

(* Mutant of aws_fallback: the missing default partition is not reported.   *)
aws_fallback_silent(parts, collector) ==
    IF find_aws(parts, 1) # None
    THEN [sel |-> Some([base |-> unwrap(find_aws(parts, 1)),
                        region_override |-> None]),
          e |-> collector]
    ELSE [sel |-> None, e |-> collector]

(* The last or_else: the default "aws" partition, or a reported error. *)
aws_fallback(parts, collector) ==
    IF find_aws(parts, 1) # None
    THEN [sel |-> Some([base |-> unwrap(find_aws(parts, 1)),
                        region_override |-> None]),
          e |-> collector]
    ELSE [sel |-> None, e |-> report_error(collector, "no AWS partition!")]

(* Mutant of merge: the bool fields are always taken from the base.         *)
merge_bool_from_base(base, output, field) ==
    IF field \in {"supports_fips", "supports_dual_stack"}
    THEN base.outputs[field]
    ELSE unwrap_or(output[field], base.outputs[field])

(* merge!(base, output, field) and the unwrap_or on the two bool fields *)
merge(base, output, field) == unwrap_or(output[field], base.outputs[field])

(* Mutant of build_partition: the two DNS suffixes are swapped.             *)
build_partition_swapped(sel) ==
    LET base == sel.base
        region_override == unwrap_or(sel.region_override, DEFAULT_OVERRIDE)
    IN  [name |-> merge(base, region_override, "name"),
         dns_suffix |-> merge(base, region_override, "dual_stack_dns_suffix"),
         dual_stack_dns_suffix |-> merge(base, region_override, "dns_suffix"),
         supports_fips |-> merge(base, region_override, "supports_fips"),
         supports_dual_stack |->
             merge(base, region_override, "supports_dual_stack"),
         implicit_global_region |->
             merge(base, region_override, "implicit_global_region")]

(* Some(Partition { ... }) built from the selected pair *)
build_partition(sel) ==
    LET base == sel.base
        region_override == unwrap_or(sel.region_override, DEFAULT_OVERRIDE)
    IN  [name |-> merge(base, region_override, "name"),
         dns_suffix |-> merge(base, region_override, "dns_suffix"),
         dual_stack_dns_suffix |->
             merge(base, region_override, "dual_stack_dns_suffix"),
         supports_fips |-> merge(base, region_override, "supports_fips"),
         supports_dual_stack |->
             merge(base, region_override, "supports_dual_stack"),
         implicit_global_region |->
             merge(base, region_override, "implicit_global_region")]

(* Mutant of resolve: the fallback is evaluated, and may report, also when *)
(* a partition was selected.                                               *)
resolve_eager_fallback(parts, r, collector) ==
    LET s == select(parts, r)
        f == aws_fallback(parts, collector)
        chosen == IF s # None THEN s ELSE f.sel
    IN  [result |-> IF chosen = None THEN None
                    ELSE Some(build_partition(unwrap(chosen))),
         e |-> f.e]

(* The whole of resolve_partition as a function of the resolver, the       *)
(* region and the caller's collector: the returned Option<Partition> and   *)
(* the collector afterwards.                                               *)
resolve(parts, r, collector) ==
    LET s == select(parts, r)
        f == aws_fallback(parts, collector)
        chosen == IF s # None THEN s ELSE f.sel
    IN  [result |-> IF chosen = None THEN None
                    ELSE Some(build_partition(unwrap(chosen))),
         e |-> IF s # None THEN collector ELSE f.e]

-----------------------------------------------------------------------------
(* Callers of a shared resolver *)

Callers == 1..NumCallers

IdleCall == [pc |-> "idle", region |-> "us-east-1", sel |-> None,
             result |-> None, e |-> <<>>]

-----------------------------------------------------------------------------
(* Actions: a resolver under construction and a single caller *)

(* No clone of the EventConnector is inside call. *)
IdleClones == [c \in Callers |-> [pc |-> "idle", request |-> None, event |-> None]]

(* No EventConnector is in use. *)
NoConnector ==
    /\ events = <<>>
    /\ data = <<>>
    /\ requests = <<>>
    /\ futures = <<>>
    /\ asserted = None
    /\ clones = IdleClones

(* No CredentialProcessProvider is in use. *)
NoProvider ==
    /\ process_output = None
    /\ profile_account_id = None
    /\ provider_pc = "unused"
    /\ parsed = None
    /\ provided = None

Init ==
    /\ partitions = <<>>
    /\ pc = "idle"
    /\ region = "us-east-1"
    /\ result = None
    /\ e = <<>>
    /\ calls = [c \in Callers |-> IdleCall]
    /\ NoConnector
    /\ NoProvider
    /\ partition_dot_json = <<>>
    /\ loaded = None

(* Mutant of add_partition: the partition is put before the others. *)
add_partition_first(partition) ==
    /\ pc = "idle"
    /\ Len(partitions) < MaxPartitions
    /\ partitions' = <<partition>> \o partitions
    /\ UNCHANGED <<pc, region, result, e, calls, partition_dot_json, loaded,
                 connector_vars, provider_vars>>

(* PartitionResolver::add_partition; takes &mut self, so no Partition      *)
(* borrowed from the resolver is alive.                                    *)
add_partition(partition) ==
    /\ pc = "idle"
    /\ Len(partitions) < MaxPartitions
    /\ partitions' = Append(partitions, partition)
    /\ UNCHANGED <<pc, region, result, e, calls, partition_dot_json, loaded,
                 connector_vars, provider_vars>>

(* PartitionResolver::resolve_partition *)
resolve_partition(r) ==
    /\ pc = "idle"
    /\ Len(e) < MaxDiagnostics
    /\ result' = resolve(partitions, r, e).result
    /\ e' = resolve(partitions, r, e).e
    /\ region' = r
    /\ pc' = "done"
    /\ UNCHANGED <<partitions, calls, partition_dot_json, loaded,
                 connector_vars, provider_vars>>

(* The caller drops the returned Partition. *)
drop_result ==
    /\ pc = "done"
    /\ pc' = "idle"
    /\ result' = None
    /\ UNCHANGED <<partitions, region, e, calls, partition_dot_json, loaded,
                 connector_vars, provider_vars>>

Next ==
    \/ \E p \in PartitionPool : add_partition(p)
    \/ \E r \in Regions : resolve_partition(r)
    \/ drop_result

Spec == Init /\ [][Next]_vars

-----------------------------------------------------------------------------
(* A resolver shared by reference between concurrent callers.  The resolver *)
(* is built before it is shared; every caller runs resolve_partition with   *)
(* its own collector, one tier of the or_else chain per step.               *)

SharedPool ==
    { [id |-> "aws", region_regex |-> AwsRegex,
       regions |-> [r \in {"mars-east-2"} |-> new_suffix],
       outputs |-> AwsOutputs],
      [id |-> "other", region_regex |-> OtherRegex,
       regions |-> NoRegions, outputs |-> OtherOutputs],
      [id |-> "other", region_regex |-> AwsRegex,
       regions |-> [r \in {"us-east-1", "mars-east-2"} |->
                       IF r = "us-east-1" THEN all_but_suffix
                       ELSE DEFAULT_OVERRIDE],
       outputs |-> OtherOutputs] }

InitShared ==
    /\ partitions \in UNION {[1..n -> SharedPool] : n \in 0..MaxPartitions}
    /\ pc = "idle"
    /\ region = "us-east-1"
    /\ result = None
    /\ e = <<>>
    /\ calls = [c \in Callers |-> IdleCall]
    /\ NoConnector
    /\ NoProvider
    /\ partition_dot_json = <<>>
    /\ loaded = None

(* The caller enters resolve_partition(region, &mut DiagnosticCollector::new()) *)
call_begin(c, r) ==
    /\ calls[c].pc = "idle"
    /\ calls' = [calls EXCEPT ![c] = [IdleCall EXCEPT !.pc = "explicit",
                                                      !.region = r]]
    /\ UNCHANGED <<partitions, pc, region, result, e, partition_dot_json, loaded,
                 connector_vars, provider_vars>>

(* Mutant of step_explicit: the scan drains the partitions it visits. *)
step_explicit_drain(c) ==
    /\ calls[c].pc = "explicit"
    /\ LET m == explicit_match_partition(partitions, calls[c].region, 1) IN
         calls' = [calls EXCEPT ![c].sel = m,
                                ![c].pc = IF m # None THEN "merge" ELSE "regex"]
    /\ partitions' = IF explicit_match_partition(partitions, calls[c].region, 1) # None
                     THEN partitions ELSE <<>>
    /\ UNCHANGED <<pc, region, result, e, partition_dot_json, loaded,
                 connector_vars, provider_vars>>

(* explicit_match_partition.next() *)
step_explicit(c) ==
    /\ calls[c].pc = "explicit"
    /\ LET m == explicit_match_partition(partitions, calls[c].region, 1) IN
         calls' = [calls EXCEPT ![c].sel = m,
                                ![c].pc = IF m # None THEN "merge" ELSE "regex"]
    /\ UNCHANGED <<partitions, pc, region, result, e, partition_dot_json, loaded,
                 connector_vars, provider_vars>>

(* .or_else(|| regex_match_partition.next()) *)
step_regex(c) ==
    /\ calls[c].pc = "regex"
    /\ LET m == regex_match_partition(partitions, calls[c].region, 1) IN
         calls' = [calls EXCEPT ![c].sel = m,
                                ![c].pc = IF m # None THEN "merge" ELSE "fallback"]
    /\ UNCHANGED <<partitions, pc, region, result, e, partition_dot_json, loaded,
                 connector_vars, provider_vars>>

(* .or_else(|| match self.partitions.iter().find(..) { .. })? *)
step_fallback(c) ==
    /\ calls[c].pc = "fallback"
    /\ LET f == aws_fallback(partitions, calls[c].e) IN
         calls' = [calls EXCEPT ![c].sel = f.sel,
                                ![c].e = f.e,
                                ![c].pc = IF f.sel # None THEN "merge" ELSE "done"]
    /\ UNCHANGED <<partitions, pc, region, result, e, partition_dot_json, loaded,
                 connector_vars, provider_vars>>

(* Some(Partition { .. }) *)
step_merge(c) ==
    /\ calls[c].pc = "merge"
    /\ calls' = [calls EXCEPT ![c].result = Some(build_partition(unwrap(calls[c].sel))),
                              ![c].pc = "done"]
    /\ UNCHANGED <<partitions, pc, region, result, e, partition_dot_json, loaded,
                 connector_vars, provider_vars>>

(* The caller drops the result and its collector. *)
call_return(c) ==
    /\ calls[c].pc = "done"
    /\ calls' = [calls EXCEPT ![c] = IdleCall]
    /\ UNCHANGED <<partitions, pc, region, result, e, partition_dot_json, loaded,
                 connector_vars, provider_vars>>

NextShared ==
    \/ \E c \in Callers, r \in Regions : call_begin(c, r)
    \/ \E c \in Callers : step_explicit(c)
    \/ \E c \in Callers : step_regex(c)
    \/ \E c \in Callers : step_fallback(c)
    \/ \E c \in Callers : step_merge(c)
    \/ \E c \in Callers : call_return(c)

SpecShared == InitShared /\ [][NextShared]_vars

-----------------------------------------------------------------------------
(* JSON documents and the token stream of aws_smithy_json                  *)
(*                                                                         *)
(* A JSON value is a tagged record; the catalog text is the sequence of    *)
(* the top-level values it holds (one, for a well-formed document).        *)

JNull == [k |-> "null", v |-> 0]

JBool(b) == [k |-> "bool", v |-> b]

JStr(str) == [k |-> "string", v |-> str]

JNum(n) == [k |-> "number", v |-> n]

JArr(items) == [k |-> "array", v |-> items]

(* members: a sequence of [key, value] in the order of the text *)
JObj(members) == [k |-> "object", v |-> members]

Member(key, value) == [key |-> key, value |-> value]

Tok(t, value) == [t |-> t, value |-> value]

(* json_token_iter: the tokens of one value, in order *)
RECURSIVE tokens_of(_)
RECURSIVE tokens_of_items(_, _)
RECURSIVE tokens_of_members(_, _)
tokens_of(val) ==
    CASE val.k = "null" -> <<Tok("ValueNull", "")>>
      [] val.k = "bool" -> <<Tok("ValueBool", val.v)>>
      [] val.k = "string" -> <<Tok("ValueString", val.v)>>
      [] val.k = "number" -> <<Tok("ValueNumber", val.v)>>
      [] val.k = "array" ->
            <<Tok("StartArray", "")>> \o tokens_of_items(val.v, 1)
                \o <<Tok("EndArray", "")>>
      [] val.k = "object" ->
            <<Tok("StartObject", "")>> \o tokens_of_members(val.v, 1)
                \o <<Tok("EndObject", "")>>

tokens_of_items(items, i) ==
    IF i > Len(items) THEN <<>>
    ELSE tokens_of(items[i]) \o tokens_of_items(items, i + 1)

tokens_of_members(members, i) ==
    IF i > Len(members) THEN <<>>
    ELSE <<Tok("ObjectKey", members[i].key)>> \o tokens_of(members[i].value)
             \o tokens_of_members(members, i + 1)

RECURSIVE json_token_iter(_, _)
json_token_iter(text, i) ==
    IF i > Len(text) THEN <<>>
    ELSE tokens_of(text[i]) \o json_token_iter(text, i + 1)

(* tokens.next(): the token at position i, None at the end of the stream *)
next_token(toks, i) == IF i > Len(toks) THEN None ELSE Some(toks[i])

(* Results of the deserializers: Ok(val) with the position of the next     *)
(* unread token, Err(msg) (a DeserializeError), or a panic.                *)
Ok(val, pos) == [st |-> "Ok", val |-> val, pos |-> pos, msg |-> ""]

Err(msg) == [st |-> "Err", val |-> None, pos |-> 0, msg |-> msg]

Panic(msg) == [st |-> "Panic", val |-> None, pos |-> 0, msg |-> msg]

IsTok(o, t) == o # None /\ unwrap(o).t = t

(* aws_smithy_json::deserialize::token::expect_string_or_null, as used by  *)
(* token_to_str                                                            *)
token_to_str(toks, i) ==
    LET o == next_token(toks, i) IN
    IF IsTok(o, "ValueNull") THEN Ok(None, i + 1)
    ELSE IF IsTok(o, "ValueString") THEN Ok(Some(unwrap(o).value), i + 1)
    ELSE Err("expected ValueString or ValueNull")

(* aws_smithy_json::deserialize::token::expect_bool_or_null *)
expect_bool_or_null(toks, i) ==
    LET o == next_token(toks, i) IN
    IF IsTok(o, "ValueNull") THEN Ok(None, i + 1)
    ELSE IF IsTok(o, "ValueBool") THEN Ok(Some(unwrap(o).value), i + 1)
    ELSE Err("expected ValueBool or ValueNull")

(* aws_smithy_json::deserialize::token::skip_value: consumes one whole     *)
(* value, nested containers included.  skip_nested continues the loop      *)
(* after the recursive call r for a nested container.                      *)
RECURSIVE skip_inner(_, _, _)
RECURSIVE skip_nested(_, _, _)
skip_inner(depth, toks, i) ==
    LET o == next_token(toks, i) IN
    IF IsTok(o, "StartObject") \/ IsTok(o, "StartArray")
    THEN skip_nested(depth, toks, skip_inner(depth + 1, toks, i + 1))
    ELSE IF IsTok(o, "EndObject") \/ IsTok(o, "EndArray") THEN Ok(None, i + 1)
    ELSE IF IsTok(o, "ValueNull") \/ IsTok(o, "ValueBool")
            \/ IsTok(o, "ValueNumber") \/ IsTok(o, "ValueString")
    THEN IF depth = 0 THEN Ok(None, i + 1) ELSE skip_inner(depth, toks, i + 1)
    ELSE IF IsTok(o, "ObjectKey") THEN skip_inner(depth, toks, i + 1)
    ELSE Err("expected value")

skip_nested(depth, toks, r) ==
    IF r.st # "Ok" THEN r
    ELSE IF depth = 0 THEN Ok(None, r.pos)
    ELSE skip_inner(depth, toks, r.pos)

skip_value(toks, i) == skip_inner(0, toks, i)

(* Regex::new: the patterns that fail to compile *)
InvalidRegexes == {"^(us", "["}

regex_new(pattern) == IF pattern \in InvalidRegexes THEN None ELSE Some(pattern)

-----------------------------------------------------------------------------
(* The deserializers of mod deser *)

(* The field of PartitionOutputOverride a key of an outputs object sets. *)
StringKeys == {"name", "dnsSuffix", "dualStackDnsSuffix", "implicitGlobalRegion"}

BoolKeys == {"supportsFIPS", "supportsDualStack"}

(* Mutant of field_of: dnsSuffix and dualStackDnsSuffix set each other's   *)
(* field.                                                                  *)
field_of_swapped(key) ==
    CASE key = "name" -> "name"
      [] key = "dnsSuffix" -> "dual_stack_dns_suffix"
      [] key = "dualStackDnsSuffix" -> "dns_suffix"
      [] key = "supportsFIPS" -> "supports_fips"
      [] key = "supportsDualStack" -> "supports_dual_stack"
      [] key = "implicitGlobalRegion" -> "implicit_global_region"

field_of(key) ==
    CASE key = "name" -> "name"
      [] key = "dnsSuffix" -> "dns_suffix"
      [] key = "dualStackDnsSuffix" -> "dual_stack_dns_suffix"
      [] key = "supportsFIPS" -> "supports_fips"
      [] key = "supportsDualStack" -> "supports_dual_stack"
      [] key = "implicitGlobalRegion" -> "implicit_global_region"

(* Mutant of deser_outputs_value: a key that is not one of the six is      *)
(* rejected.                                                               *)
deser_outputs_value_strict(toks, i, key) ==
    IF key \in StringKeys THEN token_to_str(toks, i)
    ELSE IF key \in BoolKeys THEN expect_bool_or_null(toks, i)
    ELSE Err("unexpected key")

(* The arm of deser_outputs for an object key: the value read for it. *)
deser_outputs_value(toks, i, key) ==
    IF key \in StringKeys THEN token_to_str(toks, i)
    ELSE IF key \in BoolKeys THEN expect_bool_or_null(toks, i)
    ELSE skip_value(toks, i)

(* The loop of deser_outputs, from position i with the builder so far;     *)
(* deser_outputs_set stores the value r read for key and loops on.         *)
RECURSIVE deser_outputs_loop(_, _, _)
RECURSIVE deser_outputs_set(_, _, _, _)
deser_outputs_loop(toks, i, builder) ==
    LET o == next_token(toks, i) IN
    IF IsTok(o, "EndObject") THEN Ok(Some(builder), i + 1)
    ELSE IF IsTok(o, "ObjectKey")
    THEN deser_outputs_set(toks, builder, unwrap(o).value,
                           deser_outputs_value(toks, i + 1, unwrap(o).value))
    ELSE Err("expected object key or end object")

deser_outputs_set(toks, builder, key, r) ==
    IF r.st # "Ok" THEN r
    ELSE IF key \in StringKeys \cup BoolKeys
    THEN deser_outputs_loop(toks, r.pos, [builder EXCEPT ![field_of(key)] = r.val])
    ELSE deser_outputs_loop(toks, r.pos, builder)

deser_outputs(toks, i) ==
    IF IsTok(next_token(toks, i), "StartObject")
    THEN deser_outputs_loop(toks, i + 1, DEFAULT_OVERRIDE)
    ELSE Err("expected start object")

(* HashMap::insert *)
insert(map, key, value) ==
    [x \in DOMAIN map \cup {key} |-> IF x = key THEN value ELSE map[x]]

(* The loop of deser_explicit_regions; deser_explicit_regions_insert       *)
(* inserts the override r read for key and loops on.                       *)
RECURSIVE deser_explicit_regions_loop(_, _, _)
RECURSIVE deser_explicit_regions_insert(_, _, _, _)
deser_explicit_regions_loop(toks, i, map) ==
    LET o == next_token(toks, i) IN
    IF IsTok(o, "EndObject") THEN Ok(map, i + 1)
    ELSE IF IsTok(o, "ObjectKey")
    THEN deser_explicit_regions_insert(toks, map, unwrap(o).value,
                                       deser_outputs(toks, i + 1))
    ELSE Err("expected object key or end object")

deser_explicit_regions_insert(toks, map, key, r) ==
    IF r.st # "Ok" THEN r
    ELSE deser_explicit_regions_loop(toks, r.pos, insert(map, key, unwrap(r.val)))

deser_explicit_regions(toks, i) ==
    IF IsTok(next_token(toks, i), "StartObject")
    THEN deser_explicit_regions_loop(toks, i + 1, NoRegions)
    ELSE Err("expected start object")

(* Mutant of into_partition_output: a missing implicit_global_region is    *)
(* let through, leaving the record without that field.                     *)
into_partition_output_unchecked(self) ==
    IF self.name = None THEN Err("missing name")
    ELSE IF self.dns_suffix = None THEN Err("missing dnsSuffix")
    ELSE IF self.dual_stack_dns_suffix = None
         THEN Err("missing dual_stackDnsSuffix")
    ELSE IF self.supports_fips = None THEN Err("missing supports fips")
    ELSE IF self.supports_dual_stack = None
         THEN Err("missing supportsDualstack")
    ELSE IF self.implicit_global_region = None
         THEN Ok([name |-> unwrap(self.name),
                  dns_suffix |-> unwrap(self.dns_suffix),
                  dual_stack_dns_suffix |-> unwrap(self.dual_stack_dns_suffix),
                  supports_fips |-> unwrap(self.supports_fips),
                  supports_dual_stack |-> unwrap(self.supports_dual_stack)], 0)
    ELSE Ok([name |-> unwrap(self.name),
             dns_suffix |-> unwrap(self.dns_suffix),
             dual_stack_dns_suffix |-> unwrap(self.dual_stack_dns_suffix),
             supports_fips |-> unwrap(self.supports_fips),
             supports_dual_stack |-> unwrap(self.supports_dual_stack),
             implicit_global_region |-> unwrap(self.implicit_global_region)], 0)

(* PartitionOutputOverride::into_partition_output *)
into_partition_output(self) ==
    IF self.name = None THEN Err("missing name")
    ELSE IF self.dns_suffix = None THEN Err("missing dnsSuffix")
    ELSE IF self.dual_stack_dns_suffix = None
         THEN Err("missing dual_stackDnsSuffix")
    ELSE IF self.supports_fips = None THEN Err("missing supports fips")
    ELSE IF self.supports_dual_stack = None
         THEN Err("missing supportsDualstack")
    ELSE IF self.implicit_global_region = None
         THEN Err("missing implicitGlobalRegion")
    ELSE Ok([name |-> unwrap(self.name),
             dns_suffix |-> unwrap(self.dns_suffix),
             dual_stack_dns_suffix |-> unwrap(self.dual_stack_dns_suffix),
             supports_fips |-> unwrap(self.supports_fips),
             supports_dual_stack |-> unwrap(self.supports_dual_stack),
             implicit_global_region |-> unwrap(self.implicit_global_region)], 0)

(* PartitionMetadataBuilder::default() *)
default_builder ==
    [id |-> None, region_regex |-> None, regions |-> NoRegions, outputs |-> None]

(* The last two expects of build, on the result of into_partition_output *)
build_outputs(self, outputs) ==
    IF outputs.st # "Ok" THEN Panic("missing fields on outputs")
    ELSE Ok([id |-> unwrap(self.id),
             region_regex |-> unwrap(self.region_regex),
             regions |-> self.regions,
             outputs |-> outputs.val], 0)

(* PartitionMetadataBuilder::build: every expect panics on None / Err *)
build(self) ==
    IF self.id = None THEN Panic("id must be defined")
    ELSE IF self.region_regex = None THEN Panic("region regex must be defined")
    ELSE IF self.outputs = None THEN Panic("outputs must be defined")
    ELSE build_outputs(self, into_partition_output(unwrap(self.outputs)))

(* Ok(builder.build()) at the closing brace of a partition object *)
deser_partition_end(b, pos) == IF b.st = "Ok" THEN Ok(b.val, pos) ELSE b

(* .map(|region_regex| Regex::new(&region_regex)).transpose().map_err(..)? *)
compile_region_regex(r) ==
    IF r.st # "Ok" \/ r.val = None THEN r
    ELSE IF regex_new(unwrap(r.val)) = None THEN Err("invalid regex")
    ELSE Ok(regex_new(unwrap(r.val)), r.pos)

(* The arm of deser_partition for an object key: the value read for it. *)
deser_partition_value(toks, i, key) ==
    IF key = "id" THEN token_to_str(toks, i)
    ELSE IF key = "regionRegex" THEN compile_region_regex(token_to_str(toks, i))
    ELSE IF key = "regions" THEN deser_explicit_regions(toks, i)
    ELSE IF key = "outputs" THEN deser_outputs(toks, i)
    ELSE skip_value(toks, i)

(* The loop of deser_partition; deser_partition_set stores the value r     *)
(* read for key in the builder and loops on.                               *)
RECURSIVE deser_partition_loop(_, _, _)
RECURSIVE deser_partition_set(_, _, _, _)
deser_partition_loop(toks, i, builder) ==
    LET o == next_token(toks, i) IN
    IF IsTok(o, "EndObject") THEN deser_partition_end(build(builder), i + 1)
    ELSE IF IsTok(o, "ObjectKey")
    THEN deser_partition_set(toks, builder, unwrap(o).value,
                             deser_partition_value(toks, i + 1, unwrap(o).value))
    ELSE Err("expected object key or end object")

(* Mutant of deser_partition_set: `regions` is kept only when it is read   *)
(* before `outputs`.                                                       *)
deser_partition_set_regions_first(toks, builder, key, r) ==
    IF r.st # "Ok" THEN r
    ELSE deser_partition_loop(toks, r.pos,
             IF key = "id" THEN [builder EXCEPT !.id = r.val]
             ELSE IF key = "regionRegex" THEN [builder EXCEPT !.region_regex = r.val]
             ELSE IF key = "regions" /\ builder.outputs = None
                  THEN [builder EXCEPT !.regions = r.val]
             ELSE IF key = "outputs" THEN [builder EXCEPT !.outputs = r.val]
             ELSE builder)

deser_partition_set(toks, builder, key, r) ==
    IF r.st # "Ok" THEN r
    ELSE deser_partition_loop(toks, r.pos,
             IF key = "id" THEN [builder EXCEPT !.id = r.val]
             ELSE IF key = "regionRegex" THEN [builder EXCEPT !.region_regex = r.val]
             ELSE IF key = "regions" THEN [builder EXCEPT !.regions = r.val]
             ELSE IF key = "outputs" THEN [builder EXCEPT !.outputs = r.val]
             ELSE builder)

deser_partition(toks, i) ==
    IF IsTok(next_token(toks, i), "StartObject")
    THEN deser_partition_loop(toks, i + 1, default_builder)
    ELSE Err("expected start object")

(* The loop of deser_partitions; deser_partitions_push pushes the          *)
(* partition r and loops on.                                               *)
RECURSIVE deser_partitions_loop(_, _, _)
RECURSIVE deser_partitions_push(_, _, _)
deser_partitions_loop(toks, i, items) ==
    IF IsTok(next_token(toks, i), "EndArray") THEN Ok(items, i + 1)
    ELSE deser_partitions_push(toks, items, deser_partition(toks, i))

(* Mutant of deser_partitions_push: the regions read for the previous      *)
(* partition are kept in the next one.                                     *)
deser_partitions_push_kept_regions(toks, items, r) ==
    IF r.st # "Ok" THEN r
    ELSE deser_partitions_loop(toks, r.pos,
             Append(items,
                 IF items = <<>> THEN r.val
                 ELSE [r.val EXCEPT !.regions =
                          [x \in DOMAIN items[Len(items)].regions \cup DOMAIN @ |->
                              IF x \in DOMAIN @ THEN @[x]
                              ELSE items[Len(items)].regions[x]]]))

deser_partitions_push(toks, items, r) ==
    IF r.st # "Ok" THEN r
    ELSE deser_partitions_loop(toks, r.pos, Append(items, r.val))

deser_partitions(toks, i) ==
    IF IsTok(next_token(toks, i), "StartArray")
    THEN deser_partitions_loop(toks, i + 1, <<>>)
    ELSE Err("expected start array")

(* Some(PartitionResolver::from_partitions(deser_partitions(tokens)?)) *)
from_partitions(r) == IF r.st # "Ok" THEN r ELSE Ok(Some(r.val), r.pos)

(* The arm of deserialize_partitions for a top-level key. *)
deserialize_partitions_value(toks, i, key) ==
    IF key = "partitions" THEN from_partitions(deser_partitions(toks, i))
    ELSE skip_value(toks, i)

(* The loop of deserialize_partitions over the keys of the top-level       *)
(* object; resolver is the Option<PartitionResolver> found so far, and     *)
(* deserialize_partitions_set stores the value r read for key.             *)
RECURSIVE deserialize_partitions_loop(_, _, _)
RECURSIVE deserialize_partitions_set(_, _, _, _)
deserialize_partitions_loop(toks, i, resolver) ==
    LET o == next_token(toks, i) IN
    IF IsTok(o, "EndObject") THEN Ok(resolver, i + 1)
    ELSE IF IsTok(o, "ObjectKey")
    THEN deserialize_partitions_set(toks, resolver, unwrap(o).value,
             deserialize_partitions_value(toks, i + 1, unwrap(o).value))
    ELSE Err("expected object key or end object")

deserialize_partitions_set(toks, resolver, key, r) ==
    IF r.st # "Ok" THEN r
    ELSE deserialize_partitions_loop(toks, r.pos,
             IF key = "partitions" THEN r.val ELSE resolver)

(* Mutant of deserialize_partitions_end: a catalog without a `partitions`  *)
(* key yields the empty resolver.                                          *)
deserialize_partitions_end_or_empty(toks, r) ==
    IF r.st # "Ok" THEN r
    ELSE IF next_token(toks, r.pos) # None
    THEN Err("found more JSON tokens after completing parsing")
    ELSE Ok(unwrap_or(r.val, <<>>), r.pos)

(* The checks after the loop: no token may follow, and the `partitions`    *)
(* key must have been seen.                                                *)
deserialize_partitions_end(toks, r) ==
    IF r.st # "Ok" THEN r
    ELSE IF next_token(toks, r.pos) # None
    THEN Err("found more JSON tokens after completing parsing")
    ELSE IF r.val = None THEN Err("did not find partitions array")
    ELSE Ok(unwrap(r.val), r.pos)

deserialize_tokens(toks) ==
    IF ~IsTok(next_token(toks, 1), "StartObject") THEN Err("expected StartObject")
    ELSE deserialize_partitions_end(toks, deserialize_partitions_loop(toks, 2, None))

(* deser::deserialize_partitions on the token stream of the text *)
deserialize_partitions(value) == deserialize_tokens(json_token_iter(value, 1))

-----------------------------------------------------------------------------
(* Catalog texts given to the loader *)

OutputKeys ==
    <<"name", "dnsSuffix", "dualStackDnsSuffix", "supportsFIPS",
      "supportsDualStack", "implicitGlobalRegion">>

OutputKeySet == {OutputKeys[i] : i \in 1..Len(OutputKeys)}

AwsCnRegex == "^cn\\-\\w+\\-\\d+$"

AwsCnOutputs ==
    [name |-> "aws-cn", dns_suffix |-> "amazonaws.com.cn",
     dual_stack_dns_suffix |-> "api.amazonwebservices.com.cn",
     supports_fips |-> TRUE, supports_dual_stack |-> TRUE,
     implicit_global_region |-> "cn-north-1"]

(* The JSON value written for a key of an outputs object. *)
json_value(outputs, key) ==
    IF key \in BoolKeys THEN JBool(outputs[field_of(key)])
    ELSE JStr(outputs[field_of(key)])

(* An outputs object that writes the keys in `present`, in fixture order. *)
OutputsObject(outputs, present) ==
    LET Present(key) == key \in present
        keys == SelectSeq(OutputKeys, Present)
    IN  JObj([i \in 1..Len(keys) |-> Member(keys[i], json_value(outputs, keys[i]))])

EmptyObject == JObj(<<>>)

AwsRegionsObject ==
    JObj(<<Member("af-south-1", EmptyObject), Member("aws-global", EmptyObject)>>)

AwsCnRegionsObject ==
    JObj(<<Member("aws-cn-global", EmptyObject), Member("cn-north-1", EmptyObject)>>)

AwsPartitionObject(present) ==
    JObj(<<Member("id", JStr("aws")),
           Member("regionRegex", JStr(AwsRegex)),
           Member("regions", AwsRegionsObject),
           Member("outputs", OutputsObject(AwsOutputs, present))>>)

AwsCnPartitionObject(present) ==
    JObj(<<Member("id", JStr("aws-cn")),
           Member("regionRegex", JStr(AwsCnRegex)),
           Member("regions", AwsCnRegionsObject),
           Member("outputs", OutputsObject(AwsCnOutputs, present))>>)

(* A partition object with no `outputs` key at all. *)
NoOutputsPartitionObject ==
    JObj(<<Member("id", JStr("aws-cn")),
           Member("regionRegex", JStr(AwsCnRegex)),
           Member("regions", AwsCnRegionsObject)>>)

Catalog(partition_objects) ==
    <<JObj(<<Member("version", JStr("1.1")),
             Member("partitions", JArr(partition_objects))>>)>>

(* A partition object that writes the four keys in fixture order. *)
PartitionObject(id, region_regex, regions_object, outputs_object) ==
    JObj(<<Member("id", JStr(id)),
           Member("regionRegex", JStr(region_regex)),
           Member("regions", regions_object),
           Member("outputs", outputs_object)>>)

(* The fixture reduced to its first and third partition. *)
FixtureCatalog ==
    Catalog(<<AwsPartitionObject(OutputKeySet), AwsCnPartitionObject(OutputKeySet)>>)

(* The texts given to new_from_json: catalogs whose partitions write every *)
(* subset of the six output keys; catalogs in which the second partition   *)
(* lists a region of the first; top-level objects without a `partitions`   *)
(* key; texts in which a value follows the top-level object; catalogs in   *)
(* which a regionRegex does not compile; and the fixture with one more     *)
(* member, under a key the loader does not know, in the top-level object,  *)
(* in the first partition object, in its outputs object, or in a region's  *)
(* override; the fixture's five partitions, of which the last two write    *)
(* `outputs` before an empty `regions`; catalogs whose second partition    *)
(* writes its four keys, or the six keys of its outputs, in every order;   *)
(* and a partition that writes no `regions`, its three keys in every       *)
(* order.  The nested values written under unknown keys hold keys the      *)
(* loader knows.                                                           *)
Catalogs ==
    LET OutputsCatalogs ==
            {Catalog(<<AwsPartitionObject(present)>>) : present \in SUBSET OutputKeySet}
            \cup {Catalog(<<AwsPartitionObject(OutputKeySet),
                            AwsCnPartitionObject(present)>>) :
                    present \in SUBSET OutputKeySet}
            \cup {Catalog(<<NoOutputsPartitionObject>>),
                  Catalog(<<AwsPartitionObject(OutputKeySet), NoOutputsPartitionObject>>),
                  Catalog(<<>>)}
        SharedRegionCatalogs ==
            {Catalog(<<AwsPartitionObject(OutputKeySet),
                       PartitionObject("aws-cn", AwsCnRegex,
                           JObj(<<Member("af-south-1", override_object),
                                  Member("cn-north-1", EmptyObject)>>),
                           OutputsObject(AwsCnOutputs, OutputKeySet))>>) :
                override_object \in
                    {EmptyObject, JObj(<<Member("dnsSuffix", JStr("mars.aws"))>>)}}
        NoPartitionsCatalogs ==
            {<<JObj(members)>> :
                members \in
                    {<<>>,
                     <<Member("version", JStr("1.1"))>>,
                     <<Member("Partitions", JArr(<<AwsPartitionObject(OutputKeySet)>>))>>,
                     <<Member("version", JStr("1.1")),
                       Member("partition", JArr(<<NoOutputsPartitionObject>>))>>}}
        TrailingCatalogs ==
            {text \o <<trailing>> :
                text \in {FixtureCatalog, Catalog(<<>>), <<EmptyObject>>,
                          Catalog(<<NoOutputsPartitionObject>>)},
                trailing \in {EmptyObject, JNull, JStr("x"), JArr(<<>>)}}
        InvalidRegexCatalogs ==
            {Catalog(<<PartitionObject("aws", pattern, AwsRegionsObject,
                                       OutputsObject(AwsOutputs, present))>>) :
                pattern \in InvalidRegexes, present \in {OutputKeySet, {"name"}}}
            \cup {Catalog(<<first,
                            PartitionObject("aws-cn", "[", AwsCnRegionsObject,
                                            OutputsObject(AwsCnOutputs, OutputKeySet))>>) :
                    first \in {AwsPartitionObject(OutputKeySet),
                               AwsPartitionObject({"name"}),
                               NoOutputsPartitionObject}}
        UnknownValues ==
            {JStr("x"), JNum(1), JNull, JBool(FALSE),
             JArr(<<JObj(<<Member("name", JStr("zz"))>>), JNum(2)>>),
             JObj(<<Member("partitions", JArr(<<>>)), Member("id", JStr("zz")),
                    Member("outputs", JObj(<<Member("dnsSuffix", JNull)>>))>>)}
        InsertAt(seq, pos, elem) ==
            SubSeq(seq, 1, pos) \o <<elem>> \o SubSeq(seq, pos + 1, Len(seq))
        WithTopLevelKey(key, value, pos) ==
            <<JObj(InsertAt(FixtureCatalog[1].v, pos, Member(key, value)))>>
        WithPartitionKey(key, value, pos) ==
            Catalog(<<JObj(InsertAt(AwsPartitionObject(OutputKeySet).v, pos,
                                    Member(key, value))),
                      AwsCnPartitionObject(OutputKeySet)>>)
        WithOutputsKey(key, value, pos) ==
            Catalog(<<PartitionObject("aws", AwsRegex, AwsRegionsObject,
                          JObj(InsertAt(OutputsObject(AwsOutputs, OutputKeySet).v, pos,
                                        Member(key, value)))),
                      AwsCnPartitionObject(OutputKeySet)>>)
        WithOverrideKey(key, value, pos) ==
            Catalog(<<PartitionObject("aws", AwsRegex,
                          JObj(<<Member("af-south-1",
                                     JObj(InsertAt(<<Member("dnsSuffix", JStr("mars.aws"))>>,
                                                   pos, Member(key, value)))),
                                 Member("aws-global", EmptyObject)>>),
                          OutputsObject(AwsOutputs, OutputKeySet)),
                      AwsCnPartitionObject(OutputKeySet)>>)
        UnknownKeyCatalogs ==
            {WithTopLevelKey(key, value, pos) :
                key \in {"Partitions", "extra"}, value \in UnknownValues, pos \in {0, 2}}
            \cup {WithPartitionKey(key, value, pos) :
                    key \in {"ID", "Outputs"}, value \in UnknownValues, pos \in {0, 3}}
            \cup {WithOutputsKey(key, value, pos) :
                    key \in {"Name", "dnssuffix"}, value \in UnknownValues, pos \in {0, 6}}
            \cup {WithOverrideKey(key, value, pos) :
                    key \in {"DnsSuffix", "supportsFips"}, value \in UnknownValues,
                    pos \in {0, 1}}
        IsoOutputs(name, dns_suffix, implicit_global_region) ==
            [name |-> name, dns_suffix |-> dns_suffix,
             dual_stack_dns_suffix |-> dns_suffix, supports_fips |-> TRUE,
             supports_dual_stack |-> FALSE,
             implicit_global_region |-> implicit_global_region]
        IsoKeys ==
            <<"name", "dnsSuffix", "supportsFIPS", "supportsDualStack",
              "dualStackDnsSuffix", "implicitGlobalRegion">>
        IsoPartitionObject(id, region_regex, outputs) ==
            JObj(<<Member("id", JStr(id)),
                   Member("regionRegex", JStr(region_regex)),
                   Member("outputs",
                          JObj([i \in 1..Len(IsoKeys) |->
                                  Member(IsoKeys[i], json_value(outputs, IsoKeys[i]))])),
                   Member("regions", EmptyObject)>>)
        FiveCatalogs ==
            {Catalog(<<AwsPartitionObject(OutputKeySet),
                       PartitionObject("aws-us-gov", "^us\\-gov\\-\\w+\\-\\d+$",
                           JObj(<<Member("us-gov-west-1", EmptyObject),
                                  Member("us-gov-east-1", EmptyObject),
                                  Member("aws-us-gov-global", EmptyObject)>>),
                           OutputsObject([AwsOutputs EXCEPT
                                             !.name = "aws-us-gov",
                                             !.implicit_global_region = "us-gov-east-1"],
                                         OutputKeySet)),
                       AwsCnPartitionObject(OutputKeySet),
                       IsoPartitionObject("aws-iso", "^us\\-iso\\-\\w+\\-\\d+$",
                           IsoOutputs("aws-iso", "c2s.ic.gov", "us-iso-foo-1")),
                       IsoPartitionObject("aws-iso-b", "^us\\-isob\\-\\w+\\-\\d+$",
                           IsoOutputs("aws-iso-b", "sc2s.sgov.gov", "us-isob-foo-1"))>>)}
        Perms(n) == {f \in [1..n -> 1..n] : \A i, j \in 1..n : f[i] = f[j] => i = j}
        Permuted(seq, f) == [i \in 1..Len(seq) |-> seq[f[i]]]
        OverrideRegionsObject ==
            JObj(<<Member("cn-north-1", JObj(<<Member("dnsSuffix", JStr("mars.aws"))>>)),
                   Member("aws-cn-global", EmptyObject)>>)
        PermutedCatalogs ==
            {Catalog(<<AwsPartitionObject(OutputKeySet),
                       JObj(Permuted(PartitionObject("aws-cn", AwsCnRegex,
                                         OverrideRegionsObject,
                                         OutputsObject(AwsCnOutputs, OutputKeySet)).v,
                                     f))>>) : f \in Perms(4)}
            \cup {Catalog(<<AwsPartitionObject(OutputKeySet),
                            PartitionObject("aws-cn", AwsCnRegex, AwsCnRegionsObject,
                                JObj(Permuted(OutputsObject(AwsCnOutputs, OutputKeySet).v,
                                              f)))>>) : f \in Perms(6)}
        NoRegionsCatalogs ==
            {Catalog(<<JObj(Permuted(<<Member("id", JStr("aws")),
                                       Member("regionRegex", JStr(AwsRegex)),
                                       Member("outputs",
                                              OutputsObject(AwsOutputs, OutputKeySet))>>,
                                     f))>>) : f \in Perms(3)}
    IN  OutputsCatalogs \cup SharedRegionCatalogs \cup NoPartitionsCatalogs
            \cup TrailingCatalogs \cup InvalidRegexCatalogs \cup UnknownKeyCatalogs
            \cup FiveCatalogs \cup PermutedCatalogs \cup NoRegionsCatalogs

(* The regions resolved against a loaded catalog. *)
CatalogRegions == {"cn-north-1", "af-south-1", "mars-east-1"}

-----------------------------------------------------------------------------
(* Actions: loading a catalog and resolving against the loaded resolver *)

InitLoad ==
    /\ partition_dot_json \in Catalogs
    /\ loaded = None
    /\ partitions = <<>>
    /\ pc = "idle"
    /\ region = "us-east-1"
    /\ result = None
    /\ e = <<>>
    /\ calls = [c \in Callers |-> IdleCall]
    /\ NoConnector
    /\ NoProvider

(* PartitionResolver::new_from_json *)
new_from_json ==
    /\ loaded = None
    /\ \E r \in {deserialize_partitions(partition_dot_json)} :
         /\ loaded' = Some([st |-> r.st, msg |-> r.msg])
         /\ partitions' = IF r.st = "Ok" THEN r.val ELSE partitions
    /\ UNCHANGED <<pc, region, result, e, calls, partition_dot_json,
                 connector_vars, provider_vars>>

(* resolve_partition on the resolver that new_from_json returned *)
resolve_loaded(r) ==
    /\ \E l \in loaded : l.st = "Ok"
    /\ resolve_partition(r)

NextLoad ==
    \/ new_from_json
    \/ \E r \in CatalogRegions : resolve_loaded(r)
    \/ drop_result

SpecLoad == InitLoad /\ [][NextLoad]_vars

(* A test loads a catalog and then appends partitions to the resolver that *)
(* new_from_json returned.                                                 *)
NextOrder ==
    \/ new_from_json
    \/ \E p \in PartitionPool : (\E l \in loaded : l.st = "Ok") /\ add_partition(p)

SpecOrder == InitLoad /\ [][NextOrder]_vars

-----------------------------------------------------------------------------
(* EventConnector, the request/response connector for tests                *)
(* (rust-runtime/aws-smithy-runtime/src/client/connectors/test_util/       *)
(* event_connector.rs)                                                     *)

MaxEvents == 2
MaxCalls == 2

(* The header names of the requests, in the order a HeaderMap yields them. *)
HeaderNames == <<"content-type", "x-amz-date">>

(* An HttpRequest: uri, headers (a map from some header names) and body. *)
HttpRequest(uri, headers, body) == [uri |-> uri, headers |-> headers, body |-> body]

(* The headers of a JSON request, with a date; of a plain one, a date only. *)
Headers(json) ==
    IF json
    THEN [name \in {"content-type", "x-amz-date"} |->
            IF name = "content-type" THEN "application/json" ELSE "20230101"]
    ELSE [name \in {"x-amz-date"} |-> "20230101"]

(* The requests that events expect. *)
ExpectedRequests ==
    {HttpRequest("/", Headers(TRUE), "{\"a\":1}"),
     HttpRequest("/list", Headers(FALSE), "plain")}

(* The requests that callers send: the expected ones; one with another     *)
(* date and the same JSON written with spaces; that one sent as text; one  *)
(* with a header more than expected; one with no header; one with another  *)
(* JSON body; one whose body is not UTF-8.                                 *)
ActualRequests ==
    {HttpRequest("/", Headers(TRUE), "{\"a\":1}"),
     HttpRequest("/", [Headers(TRUE) EXCEPT !["x-amz-date"] = "20230102"], "{ \"a\": 1 }"),
     HttpRequest("/", [Headers(TRUE) EXCEPT !["content-type"] = "text/plain"], "{ \"a\": 1 }"),
     HttpRequest("/list", [Headers(TRUE) EXCEPT !["content-type"] = "text/plain"], "plain"),
     HttpRequest("/list", [name \in {} |-> ""], "plain"),
     HttpRequest("/", Headers(TRUE), "{\"a\":2}"),
     HttpRequest("/list", Headers(FALSE), "\\xff")}

HttpResponse(status, body) == [status |-> status, body |-> body]

(* ConnectionEvent::new and with_latency *)
ConnectionEvent(req, res) == [latency |-> 0, req |-> req, res |-> res]

with_latency(self, latency) == [self EXCEPT !.latency = latency]

(* The events a test preloads; a 503 is served after a latency of 1. *)
EventPool ==
    {IF res.status = 503 THEN with_latency(ConnectionEvent(req, res), 1)
     ELSE ConnectionEvent(req, res) : req \in ExpectedRequests,
         res \in {HttpResponse(200, "ok"), HttpResponse(503, "slow down")}}

(* Vec::reverse *)
reverse(vec) == [i \in 1..Len(vec) |-> vec[Len(vec) + 1 - i]]

(* Vec::pop: the vector without its last element, and that element. *)
pop(vec) ==
    IF vec = <<>> THEN [vec |-> vec, item |-> None]
    ELSE [vec |-> SubSeq(vec, 1, Len(vec) - 1), item |-> Some(vec[Len(vec)])]

(* Mutant of new: the events are stored in the order given. *)
new_unreversed(data_arg) ==
    [data |-> data_arg, requests |-> <<>>]

(* EventConnector::new *)
new(data_arg) ==
    [data |-> reverse(data_arg), requests |-> <<>>]

(* std::str::from_utf8 on a body *)
from_utf8(body) == IF body = "\\xff" THEN None ELSE Some(body)

(* The JSON value a body parses to; bodies that are not JSON parse to      *)
(* nothing.                                                                *)
json_from_str(body) ==
    CASE body = "{\"a\":1}" -> Some("a=1")
      [] body = "{ \"a\": 1 }" -> Some("a=1")
      [] body = "{\"a\":2}" -> Some("a=2")
      [] OTHER -> None

(* aws_smithy_protocol_test::validate_body for the media types used here:  *)
(* JSON bodies are compared as values, other bodies as strings.            *)
validate_body(actual, expected, media_type) ==
    IF media_type = "Json"
    THEN json_from_str(actual) # None /\ json_from_str(actual) = json_from_str(expected)
    ELSE actual = expected

AssertOk == [st |-> "Ok", msg |-> "", index |-> 0]

AssertPanic(msg, index) == [st |-> "Panic", msg |-> msg, index |-> index]

(* The loop of assert_matches over the expected headers, from the n-th. *)
RECURSIVE assert_headers(_, _, _, _, _)
assert_headers(actual, expected, index, ignore_headers, n) ==
    IF n > Len(HeaderNames) THEN AssertOk
    ELSE IF HeaderNames[n] \notin DOMAIN expected.headers
              \/ HeaderNames[n] \in ignore_headers
    THEN assert_headers(actual, expected, index, ignore_headers, n + 1)
    ELSE IF HeaderNames[n] \notin DOMAIN actual.headers
    THEN AssertPanic("Header is missing", index)
    ELSE IF actual.headers[HeaderNames[n]] # expected.headers[HeaderNames[n]]
    THEN AssertPanic("Header doesn't match expected value", index)
    ELSE assert_headers(actual, expected, index, ignore_headers, n + 1)

(* The body comparison that ends assert_matches. *)
assert_body(actual, expected, index) ==
    LET media_type ==
            IF /\ "content-type" \in DOMAIN actual.headers
               /\ actual.headers["content-type"] = "application/json"
            THEN "Json" ELSE "Other"
    IN  IF from_utf8(actual.body) # None /\ from_utf8(expected.body) # None
        THEN IF validate_body(actual.body, expected.body, media_type) THEN AssertOk
             ELSE AssertPanic("validate_body failed", index)
        ELSE IF actual.body = expected.body THEN AssertOk
        ELSE AssertPanic("Body contents didn't match expected value", index)

(* ValidateRequest::assert_matches *)
assert_matches(self, index, ignore_headers) ==
    IF self.actual.uri # self.expected.uri
    THEN AssertPanic("URI doesn't match expected value", index)
    ELSE IF assert_headers(self.actual, self.expected, index, ignore_headers, 1) # AssertOk
    THEN assert_headers(self.actual, self.expected, index, ignore_headers, 1)
    ELSE assert_body(self.actual, self.expected, index)

(* The for loop of assert_requests_match, from the i-th recorded request   *)
(* (index i - 1).                                                          *)
RECURSIVE assert_requests_loop(_, _, _)
assert_requests_loop(reqs, i, ignore_headers) ==
    IF i > Len(reqs) THEN AssertOk
    ELSE IF assert_matches(reqs[i], i - 1, ignore_headers) # AssertOk
    THEN assert_matches(reqs[i], i - 1, ignore_headers)
    ELSE assert_requests_loop(reqs, i + 1, ignore_headers)

(* The assert! on the remaining events that ends assert_requests_match. *)
assert_remaining(remaining_requests, actual_requests) ==
    IF remaining_requests = <<>> THEN AssertOk
    ELSE AssertPanic("Expected additional requests", Len(remaining_requests))


InitConnector ==
    /\ events \in UNION {[1..n -> EventPool] : n \in 0..MaxEvents}
    /\ data = new(events).data
    /\ requests = new(events).requests
    /\ futures = <<>>
    /\ asserted = None
    /\ clones = IdleClones
    /\ partitions = <<>>
    /\ pc = "idle"
    /\ region = "us-east-1"
    /\ result = None
    /\ e = <<>>
    /\ calls = [c \in Callers |-> IdleCall]
    /\ partition_dot_json = <<>>
    /\ loaded = None
    /\ NoProvider

(* The result a call's future resolves to. *)
ConnectorOk(res) == [st |-> "Ok", res |-> res, msg |-> ""]

ConnectorError(msg) == [st |-> "Err", res |-> HttpResponse(0, ""), msg |-> msg]

(* Mutant of call: a request sent when no event is left is recorded too,   *)
(* paired with itself.                                                     *)
call_recording_all(request) ==
    /\ asserted = None
    /\ Len(futures) < MaxCalls
    /\ data' = pop(data).vec
    /\ \E event \in {pop(data).item} :
         IF event # None
         THEN /\ requests' = Append(requests, [expected |-> unwrap(event).req,
                                               actual |-> request])
              /\ futures' = Append(futures, [res |-> ConnectorOk(unwrap(event).res),
                                             latency |-> unwrap(event).latency,
                                             done |-> FALSE])
         ELSE /\ requests' = Append(requests, [expected |-> request,
                                               actual |-> request])
              /\ futures' = Append(futures, [res |-> ConnectorError("No more data"),
                                             latency |-> 0,
                                             done |-> FALSE])
    /\ UNCHANGED <<events, asserted, clones, resolver_vars, provider_vars>>

(* EventConnector::call up to the creation of the future: the pop and the  *)
(* push are made while the lock on data is held.                           *)
call(request) ==
    /\ asserted = None
    /\ Len(futures) < MaxCalls
    /\ data' = pop(data).vec
    /\ \E event \in {pop(data).item} :
         IF event # None
         THEN /\ requests' = Append(requests, [expected |-> unwrap(event).req,
                                               actual |-> request])
              /\ futures' = Append(futures, [res |-> ConnectorOk(unwrap(event).res),
                                             latency |-> unwrap(event).latency,
                                             done |-> FALSE])
         ELSE /\ requests' = requests
              /\ futures' = Append(futures, [res |-> ConnectorError("No more data"),
                                             latency |-> 0,
                                             done |-> FALSE])
    /\ UNCHANGED <<events, asserted, clones, resolver_vars, provider_vars>>

(* The future of the k-th call resolves: its sleep is over and the caller  *)
(* receives res.                                                           *)
future_ready(k) ==
    /\ asserted = None
    /\ k \in 1..Len(futures)
    /\ ~futures[k].done
    /\ futures' = [futures EXCEPT ![k].done = TRUE]
    /\ UNCHANGED <<events, data, requests, asserted, clones, resolver_vars,
                 provider_vars>>

(* Mutant of assert_requests_match: the events that remain are not looked  *)
(* at.                                                                     *)
assert_requests_match_recorded_only(ignore_headers) ==
    /\ asserted = None
    /\ asserted' = Some([outcome |-> assert_requests_loop(requests, 1, ignore_headers),
                         ignore_headers |-> ignore_headers])
    /\ UNCHANGED <<events, data, requests, futures, clones, resolver_vars,
                 provider_vars>>

(* EventConnector::assert_requests_match *)
assert_requests_match(ignore_headers) ==
    /\ asserted = None
    /\ \E checked \in {assert_requests_loop(requests, 1, ignore_headers)} :
         asserted' = Some([outcome |-> IF checked # AssertOk THEN checked
                                       ELSE assert_remaining(data, Len(requests)),
                           ignore_headers |-> ignore_headers])
    /\ UNCHANGED <<events, data, requests, futures, clones, resolver_vars,
                 provider_vars>>

NextConnector ==
    \/ \E request \in ActualRequests : call(request)
    \/ \E k \in 1..MaxCalls : future_ready(k)
    \/ \E ignore_headers \in {{}, {"content-type", "x-amz-date"}} :
            assert_requests_match(ignore_headers)

SpecConnector == InitConnector /\ [][NextConnector]_vars

-----------------------------------------------------------------------------
(* Actions: concurrent calls on clones of one EventConnector.  The clones  *)
(* share data and requests through the two Arc<Mutex<..>>; the guard that  *)
(* self.data.lock() returns in the condition of the `if let` lives to the  *)
(* end of the `if let`, so the branch taken runs with data locked.         *)

(* Mutant of clone_pop: data is popped without waiting for its lock. *)
clone_pop_unlocked(c, request) ==
    /\ clones[c].pc = "idle"
    /\ Len(futures) + Cardinality({d \in Callers : clones[d].pc # "idle"}) < MaxCalls
    /\ data' = pop(data).vec
    /\ clones' = [clones EXCEPT ![c] =
                    [pc |-> IF pop(data).item # None THEN "popped" ELSE "empty",
                     request |-> Some(request),
                     event |-> pop(data).item]]
    /\ UNCHANGED <<events, requests, futures, asserted, resolver_vars, provider_vars>>

(* self.data.lock().unwrap().pop(): the clone takes the lock on data, which *)
(* no other clone holds, and pops.                                         *)
clone_pop(c, request) ==
    /\ clones[c].pc = "idle"
    /\ \A d \in Callers : clones[d].pc = "idle"
    /\ Len(futures) < MaxCalls
    /\ data' = pop(data).vec
    /\ clones' = [clones EXCEPT ![c] =
                    [pc |-> IF pop(data).item # None THEN "popped" ELSE "empty",
                     request |-> Some(request),
                     event |-> pop(data).item]]
    /\ UNCHANGED <<events, requests, futures, asserted, resolver_vars, provider_vars>>

(* self.requests.lock().unwrap().push(ValidateRequest { .. }) *)
clone_push(c) ==
    /\ clones[c].pc = "popped"
    /\ requests' = Append(requests, [expected |-> unwrap(clones[c].event).req,
                                      actual |-> unwrap(clones[c].request)])
    /\ clones' = [clones EXCEPT ![c].pc = "pushed"]
    /\ UNCHANGED <<events, data, futures, asserted, resolver_vars, provider_vars>>

(* The end of the `if let`: the lock on data is released, and call returns *)
(* the future made of the branch's value.                                  *)
clone_return(c) ==
    /\ clones[c].pc \in {"pushed", "empty"}
    /\ futures' = Append(futures,
                     IF clones[c].event # None
                     THEN [res |-> ConnectorOk(unwrap(clones[c].event).res),
                           latency |-> unwrap(clones[c].event).latency,
                           done |-> FALSE]
                     ELSE [res |-> ConnectorError("No more data"),
                           latency |-> 0,
                           done |-> FALSE])
    /\ clones' = [clones EXCEPT ![c] = IdleClones[c]]
    /\ UNCHANGED <<events, data, requests, asserted, resolver_vars, provider_vars>>

NextClones ==
    \/ \E c \in Callers, request \in ActualRequests : clone_pop(c, request)
    \/ \E c \in Callers : clone_push(c)
    \/ \E c \in Callers : clone_return(c)

SpecClones == InitConnector /\ [][NextClones]_vars

-----------------------------------------------------------------------------
(* CredentialProcessProvider and the parser of the process output          *)
(* (aws/rust-runtime/aws-config/src/credential_process.rs)                 *)

(* aws_smithy_types::Number.  The u64 of PosInt and the magnitude of the   *)
(* i64 of NegInt are written hi * 2^31 + lo with lo < 2^31; Float holds    *)
(* its value, rounded down, in lo.                                         *)
Number(kind, hi, lo) == [kind |-> kind, hi |-> hi, lo |-> lo]

(* The value tokens the closure is called with. *)
ValueNumber(value) == [t |-> "ValueNumber", str |-> "", num |-> value]

ValueString(value) == [t |-> "ValueString", str |-> value, num |-> Number("PosInt", 0, 0)]

(* i32::try_from(Number): a float is an error, and so is an integer       *)
(* outside -2^31 .. 2^31 - 1.                                              *)
i32_try_from(value) ==
    IF value.kind = "Float" THEN None
    ELSE IF value.kind = "PosInt"
    THEN IF value.hi > 0 THEN None ELSE Some(value.lo)
    ELSE IF value.hi > 1 \/ (value.hi = 1 /\ value.lo > 0) THEN None
    ELSE IF value.hi = 1 THEN Some(-2147483647 - 1)
    ELSE Some(-value.lo)

(* str::to_ascii_lowercase on the keys written in the responses *)
to_ascii_lowercase(key) ==
    CASE key \in {"Version", "version"} -> "version"
      [] key \in {"AccessKeyId", "accesskeyid"} -> "accesskeyid"
      [] key = "SecretAccessKey" -> "secretaccesskey"
      [] key = "SessionToken" -> "sessiontoken"
      [] key = "Expiration" -> "expiration"
      [] key \in {"AccountId", "ACCOUNTID"} -> "accountid"
      [] OTHER -> key

eq_ignore_ascii_case(key, name) ==
    to_ascii_lowercase(key) = to_ascii_lowercase(name)

(* EscapedStr::to_unescaped: an unknown escape is an error. *)
to_unescaped(value) == IF value = "bad\\q" THEN None ELSE Some(value)

(* OffsetDateTime::parse(.., &Rfc3339) as seconds since the epoch *)
Rfc3339(expiration) ==
    IF expiration = "2022-05-02T18:36:00+00:00" THEN Some(1651516560) ELSE None

(* InvalidJsonCredentials *)
NoError == [kind |-> "", field |-> ""]

MissingField(field) == [kind |-> "MissingField", field |-> field]

InvalidField(field) == [kind |-> "InvalidField", field |-> field]

JsonError == [kind |-> "JsonError", field |-> ""]

NoCredentials ==
    [access_key_id |-> "", secret_access_key |-> "", session_token |-> None,
     expiry |-> None, account_id |-> None, provider_name |-> ""]

CredentialsOk(creds) == [st |-> "Ok", creds |-> creds, err |-> NoError]

CredentialsErr(err) == [st |-> "Err", creds |-> NoCredentials, err |-> err]

(* Mutant of parse_locals: account_id starts as None. *)
parse_locals_without_profile(profile) ==
    [version |-> None, access_key_id |-> None, secret_access_key |-> None,
     session_token |-> None, expiration |-> None, account_id |-> None,
     err |-> NoError]

(* The locals of parse_credential_process_json_credentials before the     *)
(* loop; err is the error a closure call returned, if any.                 *)
parse_locals(profile) ==
    [version |-> None, access_key_id |-> None, secret_access_key |-> None,
     session_token |-> None, expiration |-> None, account_id |-> profile,
     err |-> NoError]

(* Some(value.to_unescaped()?) stored in a local *)
set_unescaped(locals, name, value) ==
    IF to_unescaped(value.str) = None THEN [locals EXCEPT !.err = JsonError]
    ELSE [locals EXCEPT ![name] = to_unescaped(value.str)]

(* The closure given to json_parse_loop, called with a key and its value. *)
on_member(locals, key, value) ==
    IF value.t = "ValueNumber" /\ eq_ignore_ascii_case(key, "Version")
    THEN IF i32_try_from(value.num) = None
         THEN [locals EXCEPT !.err = InvalidField("Version")]
         ELSE [locals EXCEPT !.version = i32_try_from(value.num)]
    ELSE IF value.t = "ValueString" /\ eq_ignore_ascii_case(key, "AccessKeyId")
    THEN set_unescaped(locals, "access_key_id", value)
    ELSE IF value.t = "ValueString" /\ eq_ignore_ascii_case(key, "SecretAccessKey")
    THEN set_unescaped(locals, "secret_access_key", value)
    ELSE IF value.t = "ValueString" /\ eq_ignore_ascii_case(key, "SessionToken")
    THEN set_unescaped(locals, "session_token", value)
    ELSE IF value.t = "ValueString" /\ eq_ignore_ascii_case(key, "Expiration")
    THEN set_unescaped(locals, "expiration", value)
    ELSE IF value.t = "ValueString" /\ eq_ignore_ascii_case(key, "AccountId")
    THEN set_unescaped(locals, "account_id", value)
    ELSE locals

(* json_parse_loop: the closure is called on each member of the top-level  *)
(* object in turn and its first error ends the loop; a text that is not a  *)
(* JSON object is an error.                                                *)
RECURSIVE json_parse_members(_, _, _)
json_parse_members(members, i, locals) ==
    IF i > Len(members) \/ locals.err # NoError THEN locals
    ELSE json_parse_members(members, i + 1,
                            on_member(locals, members[i].key, members[i].value))

json_parse_loop(input, locals) ==
    IF ~input.object THEN [locals EXCEPT !.err = JsonError]
    ELSE json_parse_members(input.members, 1, locals)

(* The Credentials::builder() calls that end the function. *)
build_credentials(locals) ==
    CredentialsOk(
        [access_key_id |-> unwrap(locals.access_key_id),
         secret_access_key |-> unwrap(locals.secret_access_key),
         session_token |-> locals.session_token,
         expiry |-> IF locals.expiration = None THEN None
                    ELSE Rfc3339(unwrap(locals.expiration)),
         account_id |-> locals.account_id,
         provider_name |-> "CredentialProcess"])

(* Mutant of check_locals: any version number is accepted. *)
check_locals_any_version(locals) ==
    IF locals.err # NoError THEN CredentialsErr(locals.err)
    ELSE IF locals.version = None THEN CredentialsErr(MissingField("Version"))
    ELSE IF locals.access_key_id = None
    THEN CredentialsErr(MissingField("AccessKeyId"))
    ELSE IF locals.secret_access_key = None
    THEN CredentialsErr(MissingField("SecretAccessKey"))
    ELSE IF locals.expiration # None /\ Rfc3339(unwrap(locals.expiration)) = None
    THEN CredentialsErr(InvalidField("Expiration"))
    ELSE build_credentials(locals)

(* The checks made on the locals after the loop. *)
check_locals(locals) ==
    IF locals.err # NoError THEN CredentialsErr(locals.err)
    ELSE IF locals.version = None THEN CredentialsErr(MissingField("Version"))
    ELSE IF locals.version # Some(1) THEN CredentialsErr(InvalidField("version"))
    ELSE IF locals.access_key_id = None
    THEN CredentialsErr(MissingField("AccessKeyId"))
    ELSE IF locals.secret_access_key = None
    THEN CredentialsErr(MissingField("SecretAccessKey"))
    ELSE IF locals.expiration # None /\ Rfc3339(unwrap(locals.expiration)) = None
    THEN CredentialsErr(InvalidField("Expiration"))
    ELSE build_credentials(locals)

parse_credential_process_json_credentials(credentials_response, profile) ==
    check_locals(json_parse_loop(credentials_response, parse_locals(profile)))

(* What a process writes to stdout: JSON objects that hold, in the order   *)
(* of the tests, some way of writing each documented field or none, and a  *)
(* text that is not JSON.                                                  *)
CredentialResponses ==
    LET VersionFields ==
            {<<>>,
             <<Member("Version", ValueNumber(Number("PosInt", 0, 1)))>>,
             <<Member("version", ValueNumber(Number("PosInt", 0, 1)))>>,
             <<Member("Version", ValueNumber(Number("PosInt", 0, 2)))>>,
             <<Member("Version", ValueNumber(Number("NegInt", 0, 1)))>>,
             <<Member("Version", ValueNumber(Number("PosInt", 1, 0)))>>,
             <<Member("Version", ValueNumber(Number("Float", 0, 1)))>>,
             <<Member("Version", ValueString("1"))>>,
             <<Member("Version", ValueNumber(Number("PosInt", 0, 2))),
               Member("Version", ValueNumber(Number("PosInt", 0, 1)))>>}
        AccessKeyIdFields ==
            {<<>>,
             <<Member("AccessKeyId", ValueString("ASIARTESTID"))>>,
             <<Member("accesskeyid", ValueString("ASIARTESTID"))>>,
             <<Member("AccessKeyId", ValueNumber(Number("PosInt", 0, 5)))>>}
        SecretAccessKeyFields ==
            {<<>>, <<Member("SecretAccessKey", ValueString("TESTSECRETKEY"))>>}
        SessionTokenFields ==
            {<<>>,
             <<Member("SessionToken", ValueString("TESTSESSIONTOKEN"))>>,
             <<Member("SessionToken", ValueString("bad\\q"))>>}
        ExpirationFields ==
            {<<>>,
             <<Member("Expiration", ValueString("2022-05-02T18:36:00+00:00"))>>,
             <<Member("Expiration", ValueString("tomorrow"))>>}
        AccountIdFields ==
            {<<>>,
             <<Member("AccountId", ValueString("111122223333"))>>,
             <<Member("ACCOUNTID", ValueString("111122223333"))>>,
             <<Member("AccountId", ValueNumber(Number("PosInt", 0, 5)))>>}
    IN  {[object |-> TRUE,
          members |-> version \o access \o secret \o token \o account \o expiration] :
            version \in VersionFields, access \in AccessKeyIdFields,
            secret \in SecretAccessKeyFields, token \in SessionTokenFields,
            account \in AccountIdFields, expiration \in ExpirationFields}
        \cup {[object |-> FALSE, members |-> <<>>]}

(* What running the command yields: it cannot be run, it exits with a      *)
(* non-zero status, its stdout is not UTF-8, or it writes a response.      *)
ProcessOutputs ==
    LET NoResponse == [object |-> FALSE, members |-> <<>>]
    IN
    {[io |-> io, success |-> success, utf8 |-> utf8, stdout |-> NoResponse] :
        io \in {"Err"}, success \in {FALSE}, utf8 \in {FALSE}}
    \cup {[io |-> "Ok", success |-> FALSE, utf8 |-> TRUE, stdout |-> NoResponse],
          [io |-> "Ok", success |-> TRUE, utf8 |-> FALSE, stdout |-> NoResponse]}
    \cup {[io |-> "Ok", success |-> TRUE, utf8 |-> TRUE, stdout |-> response] :
            response \in CredentialResponses}


(* The state after Builder::build. *)
InitProvider ==
    /\ process_output \in {Some(output) : output \in ProcessOutputs}
    /\ profile_account_id \in {None, Some("012345678901")}
    /\ provider_pc = "built"
    /\ parsed = None
    /\ provided = None
    /\ partitions = <<>>
    /\ pc = "idle"
    /\ region = "us-east-1"
    /\ result = None
    /\ e = <<>>
    /\ calls = [c \in Callers |-> IdleCall]
    /\ partition_dot_json = <<>>
    /\ loaded = None
    /\ NoConnector

(* provider::Result *)
ProviderOk(creds) ==
    [st |-> "Ok", creds |-> creds, features |-> <<"CredentialsProcess">>,
     error |-> "", source |-> NoError]

ProviderError(error, source) ==
    [st |-> "Err", creds |-> NoCredentials, features |-> <<>>,
     error |-> error, source |-> source]

(* credentials() up to the await of the command's output *)
credentials_run ==
    /\ provider_pc = "built"
    /\ provider_pc' = "running"
    /\ UNCHANGED <<process_output, profile_account_id, parsed, provided,
                   resolver_vars, connector_vars>>

(* The map and map_err on the return value of the parser. *)
credentials_result(r) ==
    IF r.st = "Ok" THEN ProviderOk(r.creds)
    ELSE ProviderError("could not parse response", r.err)

(* credentials() from the output of the command on *)
credentials_output ==
    /\ provider_pc = "running"
    /\ provider_pc' = "returned"
    /\ \E output \in process_output :
         IF output.io = "Err"
         THEN /\ provided' = Some(ProviderError("Error retrieving credentials from external process", NoError))
              /\ parsed' = parsed
         ELSE IF ~output.success
         THEN /\ provided' = Some(ProviderError("external process exited with code", NoError))
              /\ parsed' = parsed
         ELSE IF ~output.utf8
         THEN /\ provided' = Some(ProviderError("could not decode output as UTF-8", NoError))
              /\ parsed' = parsed
         ELSE \E r \in {parse_credential_process_json_credentials(
                            output.stdout, profile_account_id)} :
                /\ parsed' = Some(r)
                /\ provided' = Some(credentials_result(r))
    /\ UNCHANGED <<process_output, profile_account_id, resolver_vars, connector_vars>>

NextProvider ==
    \/ credentials_run
    \/ credentials_output

SpecProvider == InitProvider /\ [][NextProvider]_vars

-----------------------------------------------------------------------------
(* Properties of resolve_partition, stated on the catalog itself.  The     *)
(* definitions below describe the catalog declaratively and do not use the *)
(* operators that model the code of resolve_partition.                     *)

Min(S) == CHOOSE x \in S : \A y \in S : x <= y

(* Indices of the partitions that list r explicitly, whose regex matches   *)
(* r, and whose id is "aws".                                               *)
ExplicitIdx(r) == {i \in 1..Len(partitions) : r \in DOMAIN partitions[i].regions}

RegexIdx(r) ==
    {i \in 1..Len(partitions) : is_match(partitions[i].region_regex, r)}

AwsIdx == {i \in 1..Len(partitions) : partitions[i].id = "aws"}

(* The record that has, field by field, the override's value when there is *)
(* one and the value of outputs otherwise.                                 *)
Merged(outputs, override) ==
    [f \in Fields |->
        IF override[f] = {} THEN outputs[f] ELSE CHOOSE v \in override[f] : TRUE]

(* The merged output of partition i for its explicit entry of region r. *)
ExplicitOutput(i, r) == Merged(partitions[i].outputs, partitions[i].regions[r])

Returned == pc = "done"

(* C1: when some partition lists the region explicitly, the result is the  *)
(* merged output of a partition that lists it, never that of a partition   *)
(* that only matches by regex.                                             *)
ExplicitMatchPrecedence ==
    (Returned /\ ExplicitIdx(region) # {}) =>
        \E i \in ExplicitIdx(region) : result = {ExplicitOutput(i, region)}

(* A call where an earlier partition matches by regex only, a later one    *)
(* lists the region and also matches by regex, and the later one is used.  *)
ExplicitMatchPrecedenceWitness ==
    /\ Returned
    /\ Len(partitions) = 2
    /\ 1 \in RegexIdx(region) /\ 1 \notin ExplicitIdx(region)
    /\ 2 \in RegexIdx(region) /\ 2 \in ExplicitIdx(region)
    /\ result = {ExplicitOutput(2, region)}
    /\ result # {partitions[1].outputs}

(* C2: within a tier the partition with the smallest catalog index wins:   *)
(* the first that lists the region (with its override), else the first     *)
(* whose regex matches (with no override).                                 *)
CatalogOrderTieBreak ==
    Returned =>
        /\ ExplicitIdx(region) # {} =>
               result = {ExplicitOutput(Min(ExplicitIdx(region)), region)}
        /\ (ExplicitIdx(region) = {} /\ RegexIdx(region) # {}) =>
               result = {partitions[Min(RegexIdx(region))].outputs}

(* Two partitions list the region with different merged outputs and the    *)
(* first one is returned.                                                  *)
CatalogOrderTieBreakWitness ==
    /\ Returned
    /\ ExplicitIdx(region) = {1, 2}
    /\ ExplicitOutput(1, region) # ExplicitOutput(2, region)
    /\ result = {ExplicitOutput(1, region)}

(* Two partitions match by regex only, with different outputs. *)
RegexTieBreakWitness ==
    /\ Returned
    /\ ExplicitIdx(region) = {}
    /\ RegexIdx(region) = {1, 2}
    /\ partitions[1].outputs # partitions[2].outputs
    /\ result = {partitions[1].outputs}

(* C3: with no explicit and no regex match and an "aws" partition in the   *)
(* catalog, the result is exactly the base outputs of an "aws" partition.  *)
DefaultFallback ==
    (Returned /\ ExplicitIdx(region) = {} /\ RegexIdx(region) = {}
        /\ AwsIdx # {}) =>
        \E i \in AwsIdx : result = {partitions[i].outputs}

(* The fallback is taken to an "aws" partition that has an override, with  *)
(* a field set, for another region. *)
DefaultFallbackWitness ==
    /\ Returned
    /\ ExplicitIdx(region) = {} /\ RegexIdx(region) = {}
    /\ AwsIdx # {}
    /\ \E r \in DOMAIN partitions[Min(AwsIdx)].regions :
           partitions[Min(AwsIdx)].regions[r] # DEFAULT_OVERRIDE
    /\ result = {partitions[Min(AwsIdx)].outputs}

(* C4: a call with no explicit match, no regex match and no "aws"          *)
(* partition returns None and appends at least one message to the          *)
(* caller's collector.                                                     *)
NoDefaultFailure ==
    [][(pc = "idle" /\ pc' = "done" /\ ExplicitIdx(region') = {}
          /\ RegexIdx(region') = {} /\ AwsIdx = {})
       => (result' = {} /\ Len(e') > Len(e))]_vars

(* A failed call on a resolver that has a partition, none of them "aws". *)
NoDefaultFailureWitness ==
    /\ Returned
    /\ Len(partitions) > 0
    /\ ExplicitIdx(region) = {} /\ RegexIdx(region) = {} /\ AwsIdx = {}
    /\ result = {}
    /\ Len(e) > 0

(* The pair the three tiers select, described by catalog indices. *)
SelectedIdx(r) ==
    IF ExplicitIdx(r) # {} THEN Min(ExplicitIdx(r))
    ELSE IF RegexIdx(r) # {} THEN Min(RegexIdx(r))
    ELSE Min(AwsIdx)

SelectedOverride(r) ==
    IF ExplicitIdx(r) # {} THEN partitions[Min(ExplicitIdx(r))].regions[r]
    ELSE [f \in Fields |-> {}]

(* C5: each of the six fields of the result is the override's value for    *)
(* that field when the override has one, and the base outputs' value       *)
(* otherwise, independently of the other fields.                           *)
MergeRule ==
    (Returned /\ result # {}) =>
        \A f \in Fields : \A p \in result :
            /\ SelectedOverride(region)[f] # {} =>
                   p[f] \in SelectedOverride(region)[f]
            /\ SelectedOverride(region)[f] = {} =>
                   p[f] = partitions[SelectedIdx(region)].outputs[f]

(* A result built from an override that sets some fields and not others,   *)
(* with set fields that differ from the base. *)
MergeRuleWitness ==
    /\ Returned /\ result # {}
    /\ ExplicitIdx(region) # {}
    /\ \E f \in Fields : SelectedOverride(region)[f] = {}
    /\ \A f \in Fields \ {"dns_suffix"} :
           /\ SelectedOverride(region)[f] # {}
           /\ partitions[SelectedIdx(region)].outputs[f]
                  \notin SelectedOverride(region)[f]

(* C6: every returned Partition has all six fields populated, and an       *)
(* empty override gives exactly the base outputs of the selected           *)
(* partition.                                                              *)
MergeTotality ==
    (Returned /\ result # {}) =>
        \A p \in result :
            /\ DOMAIN p = Fields
            /\ \A f \in {"supports_fips", "supports_dual_stack"} :
                   p[f] \in BOOLEAN
            /\ \A f \in Fields \ {"supports_fips", "supports_dual_stack"} :
                   p[f] \in STRING
            /\ (ExplicitIdx(region) # {}
                  /\ \A f \in Fields : SelectedOverride(region)[f] = {})
               => p = partitions[SelectedIdx(region)].outputs

(* An explicit entry with an empty override is selected. *)
MergeTotalityWitness ==
    /\ Returned /\ result # {}
    /\ ExplicitIdx(region) # {}
    /\ \A f \in Fields : SelectedOverride(region)[f] = {}
    /\ result = {partitions[SelectedIdx(region)].outputs}

(* C7: resolve_partition always returns, and it returns None only when no  *)
(* partition lists the region, no regex matches it and no partition has    *)
(* id "aws"; otherwise it returns a Partition.                             *)
ResolveTotal ==
    Returned =>
        /\ Cardinality(result) <= 1
        /\ result = {} <=>
               (ExplicitIdx(region) = {} /\ RegexIdx(region) = {} /\ AwsIdx = {})

(* A Partition is returned through the fallback by a partition whose id is *)
(* "aws" while the name in its outputs is not.                             *)
ResolveTotalWitness ==
    /\ Returned
    /\ ExplicitIdx(region) = {} /\ RegexIdx(region) = {}
    /\ AwsIdx # {}
    /\ \A i \in AwsIdx : partitions[i].outputs.name # "aws"
    /\ result # {}

(* What a call for region r returns when it runs alone on the catalog. *)
AloneResult(r) ==
    IF ExplicitIdx(r) = {} /\ RegexIdx(r) = {} /\ AwsIdx = {} THEN {}
    ELSE {Merged(partitions[SelectedIdx(r)].outputs, SelectedOverride(r))}

(* C8: no step of any caller's resolve_partition changes the shared        *)
(* resolver, and every call, however interleaved with the others, returns *)
(* what it would return alone and reports an error only to its own         *)
(* collector.                                                              *)
ConcurrentResolvePure ==
    [][/\ partitions' = partitions
       /\ \A c \in Callers :
            calls'[c].pc = "done" =>
               /\ calls'[c].result = AloneResult(calls'[c].region)
               /\ Len(calls'[c].e) = IF calls'[c].result = {} THEN 1 ELSE 0]_vars

(* Two calls are in flight at once: one has returned a Partition of a      *)
(* non-empty catalog, the other one, for another region, is past the       *)
(* regex tier.                                                             *)
ConcurrentResolvePureWitness ==
    /\ Len(partitions) = 2
    /\ \E c, d \in Callers :
         /\ c # d
         /\ calls[c].pc = "done" /\ calls[c].result # {}
         /\ calls[d].pc = "fallback"
         /\ calls[d].region # calls[c].region

(* The partition objects written in the catalog text: the items of the    *)
(* `partitions` array of the top-level object.                             *)
MemberValues(object, key) ==
    {object.v[i].value : i \in {j \in 1..Len(object.v) : object.v[j].key = key}}

PartitionObjects ==
    UNION { {array.v[i] : i \in 1..Len(array.v)} :
              array \in UNION {MemberValues(partition_dot_json[t], "partitions") :
                                 t \in {u \in 1..Len(partition_dot_json) :
                                          partition_dot_json[u].k = "object"}} }

(* The partition object has no `outputs`, or its `outputs` lacks a key. *)
LacksOutputs(object) ==
    \/ MemberValues(object, "outputs") = {}
    \/ \E outputs \in MemberValues(object, "outputs") :
         \E key \in OutputKeySet : MemberValues(outputs, key) = {}

(* C9: loading a catalog in which a partition has no `outputs`, or an      *)
(* `outputs` that lacks one of the six fields, returns an error result     *)
(* and does not panic.                                                     *)
MissingOutputsIsError ==
    \A l \in loaded :
        (\E object \in PartitionObjects : LacksOutputs(object)) => l.st = "Err"

(* C10: every partition of a resolver returned by the loader has all six   *)
(* fields of `outputs` present.                                            *)
LoadedOutputsPopulated ==
    \A l \in loaded :
        l.st = "Ok" =>
            \A i \in 1..Len(partitions) :
                /\ DOMAIN partitions[i].outputs = Fields
                /\ \A f \in {"supports_fips", "supports_dual_stack"} :
                       partitions[i].outputs[f] \in BOOLEAN
                /\ \A f \in Fields \ {"supports_fips", "supports_dual_stack"} :
                       partitions[i].outputs[f] \in STRING

(* A catalog of two partitions is loaded, and the resolver holds the       *)
(* outputs the text wrote for them.                                        *)
LoadedOutputsPopulatedWitness ==
    /\ \E l \in loaded : l.st = "Ok"
    /\ Len(partitions) = 2
    /\ partitions[1].outputs = AwsOutputs
    /\ partitions[2].outputs = AwsCnOutputs

(* The items of the `partitions` array written in the top-level object   *)
(* of the catalog text, in the order written.                              *)
WrittenPartitions ==
    IF /\ Len(partition_dot_json) >= 1
       /\ partition_dot_json[1].k = "object"
       /\ MemberValues(partition_dot_json[1], "partitions") # {}
    THEN (CHOOSE array \in MemberValues(partition_dot_json[1], "partitions") : TRUE).v
    ELSE <<>>

(* The region keys written in the `regions` object of a partition object. *)
WrittenRegionKeys(object) ==
    UNION { {regions_object.v[i].key : i \in 1..Len(regions_object.v)} :
              regions_object \in MemberValues(object, "regions") }

(* The region keys the text writes under more than one partition object,   *)
(* and those the resolver holds in more than one partition.                *)
SharedWritten ==
    {key \in UNION {WrittenRegionKeys(WrittenPartitions[i]) :
                      i \in 1..Len(WrittenPartitions)} :
        \E i, j \in 1..Len(WrittenPartitions) :
            /\ i < j
            /\ key \in WrittenRegionKeys(WrittenPartitions[i])
            /\ key \in WrittenRegionKeys(WrittenPartitions[j])}

SharedLoaded ==
    {key \in UNION {DOMAIN partitions[i].regions : i \in 1..Len(partitions)} :
        \E i, j \in 1..Len(partitions) :
            /\ i < j
            /\ key \in DOMAIN partitions[i].regions
            /\ key \in DOMAIN partitions[j].regions}

(* C11 as stated: no region key is in the regions map of more than one     *)
(* partition of a resolver returned by the loader.                         *)
RegionKeysUnique ==
    \A l \in loaded : l.st = "Ok" => SharedLoaded = {}

(* C11: the region keys held by more than one partition of a resolver      *)
(* returned by the loader are exactly those the catalog text writes under  *)
(* more than one partition object; the loader does not reject them.        *)
RegionKeysAsWritten ==
    \A l \in loaded : l.st = "Ok" => SharedLoaded = SharedWritten

(* Two partitions that each list regions are loaded and share no key. *)
RegionKeysAsWrittenWitness ==
    /\ \E l \in loaded : l.st = "Ok"
    /\ Len(partitions) = 2
    /\ DOMAIN partitions[1].regions # {}
    /\ DOMAIN partitions[2].regions # {}
    /\ SharedLoaded = {}

(* The text is one object that holds a `partitions` key. *)
HasPartitionsKey ==
    /\ Len(partition_dot_json) >= 1
    /\ partition_dot_json[1].k = "object"
    /\ MemberValues(partition_dot_json[1], "partitions") # {}

(* The partition object writes an id, a regionRegex that compiles, and an  *)
(* `outputs` with the six keys.                                            *)
WellFormedPartition(object) ==
    /\ MemberValues(object, "id") # {}
    /\ MemberValues(object, "regionRegex") # {}
    /\ \A pattern \in MemberValues(object, "regionRegex") :
           pattern.v \notin InvalidRegexes
    /\ ~LacksOutputs(object)

(* The text is a single object whose `partitions` array holds well-formed  *)
(* partition objects.                                                      *)
WellFormedCatalog ==
    /\ Len(partition_dot_json) = 1
    /\ HasPartitionsKey
    /\ \A i \in 1..Len(WrittenPartitions) : WellFormedPartition(WrittenPartitions[i])

(* The keys of the top-level object. *)
TopLevelKeys ==
    {partition_dot_json[1].v[i].key : i \in 1..Len(partition_dot_json[1].v)}

(* C12: a text whose top-level object has no `partitions` key loads to an  *)
(* error result ("did not find partitions array" when nothing follows the  *)
(* object) and no resolver; a well-formed catalog loads whatever other     *)
(* keys its top-level object holds.                                        *)
MissingPartitionsKeyIsError ==
    \A l \in loaded :
        /\ (/\ Len(partition_dot_json) >= 1
            /\ partition_dot_json[1].k = "object"
            /\ ~HasPartitionsKey) =>
               /\ l.st = "Err"
               /\ partitions = <<>>
               /\ Len(partition_dot_json) = 1 =>
                      l.msg = "did not find partitions array"
        /\ WellFormedCatalog => l.st = "Ok"

(* A top-level object that holds keys, none of them `partitions`, was      *)
(* loaded to the error.                                                    *)
MissingPartitionsKeyIsErrorWitness ==
    /\ \E l \in loaded : l.st = "Err" /\ l.msg = "did not find partitions array"
    /\ Len(partition_dot_json) = 1
    /\ TopLevelKeys = {"version", "partition"}

(* C13: a text in which a value follows the top-level object loads to an  *)
(* error result and no resolver.                                           *)
TrailingTokensIsError ==
    \A l \in loaded :
        (Len(partition_dot_json) > 1 /\ partition_dot_json[1].k = "object") =>
            l.st = "Err" /\ partitions = <<>>

(* C14: a text in which some partition object writes a regionRegex that    *)
(* does not compile loads to an error result and no resolver.              *)
InvalidRegexIsError ==
    \A l \in loaded :
        (\E i \in 1..Len(WrittenPartitions) :
            \E pattern \in MemberValues(WrittenPartitions[i], "regionRegex") :
                pattern.v \in InvalidRegexes) =>
            l.st = "Err" /\ partitions = <<>>

(* The members of an object whose key is one of keys, in order. *)
KeepMembers(members, keys) ==
    LET Known(member) == member.key \in keys IN SelectSeq(members, Known)

(* The text without the members whose key is not, letter for letter, a     *)
(* name the schema gives to that level: in an outputs or override object,  *)
(* in a regions object's overrides, in a partition object, and in the      *)
(* top-level object.                                                       *)
StripOutputs(object) == JObj(KeepMembers(object.v, OutputKeySet))

StripRegions(object) ==
    JObj([i \in 1..Len(object.v) |->
            Member(object.v[i].key, StripOutputs(object.v[i].value))])

StripPartition(object) ==
    LET kept == KeepMembers(object.v, {"id", "regionRegex", "regions", "outputs"}) IN
    JObj([i \in 1..Len(kept) |->
            Member(kept[i].key,
                   CASE kept[i].key = "regions" -> StripRegions(kept[i].value)
                     [] kept[i].key = "outputs" -> StripOutputs(kept[i].value)
                     [] OTHER -> kept[i].value)])

StripTopLevel(object) ==
    LET kept == KeepMembers(object.v, {"partitions"}) IN
    JObj([i \in 1..Len(kept) |->
            Member("partitions",
                   JArr([j \in 1..Len(kept[i].value.v) |->
                           StripPartition(kept[i].value.v[j])]))])

StripUnknownKeys(text) ==
    [t \in 1..Len(text) |->
        IF t = 1 /\ text[t].k = "object" THEN StripTopLevel(text[t]) ELSE text[t]]

(* The status and the resolver that a load result stands for. *)
Outcome(r) == [st |-> r.st, resolver |-> IF r.st = "Ok" THEN r.val ELSE <<>>]

(* C15: the status and the resolver of a load are those of loading the     *)
(* text without its unknown keys.                                          *)
UnknownKeysSkipped ==
    \A l \in loaded :
        [st |-> l.st, resolver |-> partitions]
            = Outcome(deserialize_partitions(StripUnknownKeys(partition_dot_json)))

(* The outputs of the first partition held a key `Name` whose value is an  *)
(* object with recognised keys in it, and the catalog loaded as the        *)
(* fixture does.                                                           *)
UnknownKeysSkippedWitness ==
    /\ \E l \in loaded : l.st = "Ok"
    /\ Len(WrittenPartitions) = 2
    /\ \E outputs \in MemberValues(WrittenPartitions[1], "outputs") :
          \E value \in MemberValues(outputs, "Name") :
              /\ value.k = "object"
              /\ MemberValues(value, "id") # {}
    /\ StripUnknownKeys(partition_dot_json) # partition_dot_json
    /\ Len(partitions) = 2
    /\ partitions[1].outputs = AwsOutputs

(* The values a partition object writes in its `outputs`, by the field    *)
(* each key of the schema stands for.                                      *)
WrittenOutputs(object) ==
    LET outputs == CHOOSE o \in MemberValues(object, "outputs") : TRUE
        Written(key) == (CHOOSE value \in MemberValues(outputs, key) : TRUE).v
    IN  [name |-> Written("name"),
         dns_suffix |-> Written("dnsSuffix"),
         dual_stack_dns_suffix |-> Written("dualStackDnsSuffix"),
         supports_fips |-> Written("supportsFIPS"),
         supports_dual_stack |-> Written("supportsDualStack"),
         implicit_global_region |-> Written("implicitGlobalRegion")]

(* The partition objects that list region r, and those that list it with   *)
(* an empty object.                                                        *)
ListedIdx(r) ==
    {i \in 1..Len(WrittenPartitions) : r \in WrittenRegionKeys(WrittenPartitions[i])}

ListedEmptyIdx(r) ==
    {i \in 1..Len(WrittenPartitions) :
        \E regions_object \in MemberValues(WrittenPartitions[i], "regions") :
            EmptyObject \in MemberValues(regions_object, r)}

(* C16: on a resolver loaded from a well-formed catalog, resolving a       *)
(* region that exactly one partition object lists, with an empty object,   *)
(* returns the values written in that partition object's `outputs`.        *)
LoadThenResolve ==
    (/\ Returned
     /\ \E l \in loaded : l.st = "Ok"
     /\ WellFormedCatalog) =>
        \A i \in ListedEmptyIdx(region) :
            ListedIdx(region) = {i} =>
                result = {WrittenOutputs(WrittenPartitions[i])}

(* The fixture is loaded and "cn-north-1" resolves to the aws-cn outputs. *)
LoadThenResolveWitness ==
    /\ Returned
    /\ partition_dot_json = FixtureCatalog
    /\ region = "cn-north-1"
    /\ ListedEmptyIdx(region) = {2} /\ ListedIdx(region) = {2}
    /\ \E p \in result : p.name = "aws-cn" /\ p.dns_suffix = "amazonaws.com.cn"

-----------------------------------------------------------------------------
(* Properties of EventConnector, stated on the events given to new and on  *)
(* the requests the callers sent.                                          *)

(* C17: the future of the k-th call, for k up to the number of preloaded   *)
(* events, holds the response of the k-th event given to new, whatever     *)
(* request the call passed.                                                *)
ResponsesInOrder ==
    \A k \in 1..Len(futures) :
        k <= Len(events) =>
            /\ futures[k].res.st = "Ok"
            /\ futures[k].res.res = events[k].res

(* Two events with different responses were preloaded, two calls sent      *)
(* requests that the events do not expect, and both futures resolved,      *)
(* each to its event's response.                                           *)
ResponsesInOrderWitness ==
    /\ Len(events) = 2 /\ Len(futures) = 2
    /\ events[1].res # events[2].res
    /\ \A k \in 1..2 :
          /\ futures[k].done
          /\ futures[k].res.res = events[k].res
          /\ requests[k].actual # events[k].req

(* The recorded request agrees with the expected one as far as             *)
(* assert_matches looks: the URI, the expected headers that are not        *)
(* ignored, and the body (as JSON values when the actual request declares  *)
(* JSON, else byte for byte).                                              *)
RequestAgrees(actual, expected, ignore_headers) ==
    /\ actual.uri = expected.uri
    /\ \A name \in DOMAIN expected.headers \ ignore_headers :
          /\ name \in DOMAIN actual.headers
          /\ actual.headers[name] = expected.headers[name]
    /\ IF /\ "content-type" \in DOMAIN actual.headers
          /\ actual.headers["content-type"] = "application/json"
          /\ actual.body # "\\xff" /\ expected.body # "\\xff"
       THEN /\ json_from_str(actual.body) # None
            /\ json_from_str(actual.body) = json_from_str(expected.body)
       ELSE actual.body = expected.body

(* C18: assert_requests_match panics when fewer calls were made than       *)
(* events were preloaded, and it returns only when every recorded request  *)
(* is paired with, and agrees with, the expected request of the event that *)
(* served it.                                                              *)
AssertRequestsMatchChecks ==
    \A a \in asserted :
        /\ Len(futures) < Len(events) => a.outcome.st = "Panic"
        /\ a.outcome.st = "Ok" <=>
              /\ Len(futures) >= Len(events)
              /\ \A i \in 1..Len(requests) :
                    /\ requests[i].expected = events[i].req
                    /\ RequestAgrees(requests[i].actual, events[i].req,
                                     a.ignore_headers)

(* Two events were preloaded, one call was made with the request its       *)
(* event expects, and the assertion panicked for the event that remains.   *)
AssertRequestsMatchChecksWitness ==
    /\ Len(events) = 2 /\ Len(futures) = 1
    /\ requests[1].actual = events[1].req
    /\ \E a \in asserted :
          /\ a.outcome.st = "Panic"
          /\ a.outcome.msg = "Expected additional requests"

-----------------------------------------------------------------------------
(* Properties of parse_credential_process_json_credentials, stated on the  *)
(* response the process wrote.                                             *)

(* The response given to the parser. *)
Response == (CHOOSE output \in process_output : TRUE).stdout

(* The spellings of a key name that differ from it in letter case only. *)
Spellings(name) ==
    CASE name = "Version" -> {"Version", "version"}
      [] name = "AccessKeyId" -> {"AccessKeyId", "accesskeyid"}
      [] name = "AccountId" -> {"AccountId", "ACCOUNTID"}
      [] OTHER -> {name}

(* The members of the response that give name a number, or a string. *)
NumbersOf(name) ==
    LET Named(member) == member.key \in Spellings(name) /\ member.value.t = "ValueNumber"
    IN  SelectSeq(Response.members, Named)

StringsOf(name) ==
    LET Named(member) == member.key \in Spellings(name) /\ member.value.t = "ValueString"
    IN  SelectSeq(Response.members, Named)

Last(seq) == seq[Len(seq)]

(* The response is a JSON object whose strings have no unknown escape. *)
WellFormedResponse ==
    /\ Response.object
    /\ \A i \in 1..Len(Response.members) : Response.members[i].value.str # "bad\\q"

(* The Version numbers are integers of 32 bits and the last one is 1. *)
VersionIsOne ==
    /\ NumbersOf("Version") # <<>>
    /\ \A i \in 1..Len(NumbersOf("Version")) :
          /\ NumbersOf("Version")[i].value.num.kind # "Float"
          /\ NumbersOf("Version")[i].value.num.hi = 0
    /\ Last(NumbersOf("Version")).value.num = Number("PosInt", 0, 1)

(* C19: credentials are returned only for Version 1 with AccessKeyId and   *)
(* SecretAccessKey; for a well-formed response, no Version number gives    *)
(* MissingField("Version"), another version gives InvalidField, a missing  *)
(* AccessKeyId or SecretAccessKey gives MissingField, and without          *)
(* SessionToken and Expiration the credentials have no session token and   *)
(* no expiry.                                                              *)
RequiredFields ==
    \A r \in parsed :
        /\ r.st = "Ok" =>
              /\ VersionIsOne
              /\ StringsOf("AccessKeyId") # <<>>
              /\ StringsOf("SecretAccessKey") # <<>>
              /\ r.creds.access_key_id = Last(StringsOf("AccessKeyId")).value.str
              /\ r.creds.secret_access_key = Last(StringsOf("SecretAccessKey")).value.str
              /\ StringsOf("SessionToken") = <<>> => r.creds.session_token = None
              /\ StringsOf("Expiration") = <<>> => r.creds.expiry = None
        /\ WellFormedResponse =>
              /\ NumbersOf("Version") = <<>> =>
                    r.st = "Err" /\ r.err = MissingField("Version")
              /\ (NumbersOf("Version") # <<>> /\ ~VersionIsOne) =>
                    r.st = "Err" /\ r.err.kind = "InvalidField"
              /\ (VersionIsOne /\ StringsOf("AccessKeyId") = <<>>) =>
                    r.st = "Err" /\ r.err = MissingField("AccessKeyId")
              /\ (VersionIsOne /\ StringsOf("AccessKeyId") # <<>>
                    /\ StringsOf("SecretAccessKey") = <<>>) =>
                    r.st = "Err" /\ r.err = MissingField("SecretAccessKey")
              /\ (VersionIsOne /\ StringsOf("AccessKeyId") # <<>>
                    /\ StringsOf("SecretAccessKey") # <<>>
                    /\ StringsOf("Expiration") = <<>>) =>
                    r.st = "Ok"

(* The response of test_credential_process_no_expiry was parsed. *)
RequiredFieldsWitness ==
    /\ process_output # None
    /\ Response.object
    /\ Len(Response.members) = 3
    /\ NumbersOf("Version") # <<>>
    /\ \E r \in parsed :
          /\ r.st = "Ok"
          /\ r.creds.access_key_id = "ASIARTESTID"
          /\ r.creds.secret_access_key = "TESTSECRETKEY"
          /\ r.creds.session_token = None
          /\ r.creds.expiry = None

(* C20: the credentials carry the last AccountId string of the response    *)
(* when it has one, else the profile account id, which may be none.        *)
AccountIdFallback ==
    \A r \in parsed :
        r.st = "Ok" =>
            r.creds.account_id =
                IF StringsOf("AccountId") # <<>>
                THEN {Last(StringsOf("AccountId")).value.str}
                ELSE profile_account_id

(* The profile has an account id and the response has none: the profile's  *)
(* is carried.                                                             *)
AccountIdFallbackWitness ==
    /\ process_output # None
    /\ profile_account_id = {"012345678901"}
    /\ StringsOf("AccountId") = <<>>
    /\ \E r \in parsed : r.st = "Ok" /\ r.creds.account_id = {"012345678901"}

(* The response's account id shadows the profile's. *)
AccountIdShadowedWitness ==
    /\ process_output # None
    /\ profile_account_id = {"012345678901"}
    /\ \E r \in parsed : r.st = "Ok" /\ r.creds.account_id = {"111122223333"}

-----------------------------------------------------------------------------
(* Insertion order of the partition sequence *)

(* C21: the partition sequence preserves insertion order: a successful     *)
(* load yields one partition per item of the `partitions` array, the i-th  *)
(* with the id written in the i-th item, and every other step that changes *)
(* the sequence appends one partition and leaves the others as they were.  *)
InsertionOrder ==
    [][/\ (loaded = None /\ \E l \in loaded' : l.st = "Ok") =>
            /\ Len(partitions') = Len(WrittenPartitions)
            /\ \A i \in 1..Len(WrittenPartitions) :
                 \A id \in MemberValues(WrittenPartitions[i], "id") :
                     partitions'[i].id = id.v
       /\ (loaded' = loaded /\ partitions' # partitions) =>
            \E p \in PartitionPool : partitions' = Append(partitions, p)
      ]_vars

(* A catalog of one partition is loaded and a partition with another id    *)
(* is added: the loaded one is first, the added one second.                *)
InsertionOrderWitness ==
    /\ \E l \in loaded : l.st = "Ok"
    /\ Len(WrittenPartitions) = 1
    /\ Len(partitions) = 2
    /\ \A id \in MemberValues(WrittenPartitions[1], "id") : partitions[1].id = id.v
    /\ partitions[2].id # partitions[1].id

(* The fixture's five objects are loaded as five partitions, in the order  *)
(* written.                                                                *)
FixtureOrderWitness ==
    /\ \E l \in loaded : l.st = "Ok"
    /\ Len(partitions) = 5
    /\ [i \in 1..5 |-> partitions[i].id]
         = <<"aws", "aws-us-gov", "aws-cn", "aws-iso", "aws-iso-b">>

-----------------------------------------------------------------------------
(* Field order of a partition object *)

(* The keys of the members of an object are distinct. *)
DistinctKeys(object) ==
    \A i, j \in 1..Len(object.v) : object.v[i].key = object.v[j].key => i = j

(* The partition object, its `regions` object and its `outputs` object     *)
(* each write a key once.                                                  *)
DistinctPartitionKeys(object) ==
    /\ DistinctKeys(object)
    /\ \A nested \in MemberValues(object, "regions") \cup MemberValues(object, "outputs") :
           DistinctKeys(nested)

(* The override written in an object of a `regions` object: per field the  *)
(* value written under its key, whatever the place of the key.             *)
WrittenOverride(object) ==
    LET Written(key) == {value.v : value \in MemberValues(object, key)}
    IN  [name |-> Written("name"),
         dns_suffix |-> Written("dnsSuffix"),
         dual_stack_dns_suffix |-> Written("dualStackDnsSuffix"),
         supports_fips |-> Written("supportsFIPS"),
         supports_dual_stack |-> Written("supportsDualStack"),
         implicit_global_region |-> Written("implicitGlobalRegion")]

(* The partition metadata a partition object describes, read off its       *)
(* members by key alone; an object without `regions` lists no region.      *)
DescribedPartition(object) ==
    LET Written(key) == (CHOOSE value \in MemberValues(object, key) : TRUE).v
        Override(r) ==
            CHOOSE override \in UNION {MemberValues(regions_object, r) :
                         regions_object \in MemberValues(object, "regions")} : TRUE
    IN  [id |-> Written("id"),
         region_regex |-> Written("regionRegex"),
         regions |-> [r \in WrittenRegionKeys(object) |-> WrittenOverride(Override(r))],
         outputs |-> WrittenOutputs(object)]

(* C22: the loader assumes no field order: every partition object of a     *)
(* well-formed catalog whose keys are distinct loads to the metadata its   *)
(* members describe by key, wherever the keys `id`, `regionRegex`,         *)
(* `regions`, `outputs` and the keys of its outputs are written, and an    *)
(* object without `regions` loads with an empty explicit-region map.       *)
NoFieldOrder ==
    \A l \in loaded :
        (l.st = "Ok" /\ WellFormedCatalog) =>
            /\ Len(partitions) = Len(WrittenPartitions)
            /\ \A i \in 1..Len(WrittenPartitions) :
                 DistinctPartitionKeys(WrittenPartitions[i]) =>
                     /\ partitions[i] = DescribedPartition(WrittenPartitions[i])
                     /\ MemberValues(WrittenPartitions[i], "regions") = {} =>
                            DOMAIN partitions[i].regions = {}

(* A partition object that writes `outputs` first and `id` last, with a    *)
(* region that has an override, is loaded to the metadata it describes.    *)
NoFieldOrderWitness ==
    /\ \E l \in loaded : l.st = "Ok"
    /\ WellFormedCatalog
    /\ Len(partitions) = Len(WrittenPartitions)
    /\ \E i \in 1..Len(WrittenPartitions) :
         /\ DistinctPartitionKeys(WrittenPartitions[i])
         /\ WrittenPartitions[i].v[1].key = "outputs"
         /\ WrittenPartitions[i].v[2].key = "regions"
         /\ WrittenPartitions[i].v[4].key = "id"
         /\ partitions[i].regions["cn-north-1"].dns_suffix = {"mars.aws"}
         /\ partitions[i] = DescribedPartition(WrittenPartitions[i])

(* A partition object that writes `outputs`, `regionRegex` and `id` and no *)
(* `regions` is loaded with an empty explicit-region map.                  *)
OmittedRegionsWitness ==
    /\ \E l \in loaded : l.st = "Ok"
    /\ Len(WrittenPartitions) = 1
    /\ Len(partitions) = 1
    /\ MemberValues(WrittenPartitions[1], "regions") = {}
    /\ WrittenPartitions[1].v[1].key = "outputs"
    /\ DOMAIN partitions[1].regions = {}

(* The outputs of a partition object are written with the key              *)
(* `implicitGlobalRegion` first and `name` last, and are loaded as written. *)
OutputsOrderWitness ==
    /\ \E l \in loaded : l.st = "Ok"
    /\ Len(WrittenPartitions) = 2
    /\ Len(partitions) = 2
    /\ \E outputs \in MemberValues(WrittenPartitions[2], "outputs") :
         /\ Len(outputs.v) = 6
         /\ outputs.v[1].key = "implicitGlobalRegion"
         /\ outputs.v[6].key = "name"
    /\ partitions[2].outputs = AwsCnOutputs

-----------------------------------------------------------------------------
(* The default fallback among several "aws" partitions *)

(* C23: when no partition lists or matches the region, the result is the   *)
(* base outputs of the earliest partition whose id is "aws"; a partition   *)
(* with another id is never the fallback, whatever the name in its         *)
(* outputs.                                                                *)
EarliestAwsFallback ==
    (Returned /\ ExplicitIdx(region) = {} /\ RegexIdx(region) = {}) =>
        /\ AwsIdx # {} => result = {partitions[Min(AwsIdx)].outputs}
        /\ AwsIdx = {} => result = None

(* Two partitions have the id "aws" and different outputs; the fallback    *)
(* returns the outputs of the first.                                       *)
EarliestAwsFallbackWitness ==
    /\ Returned
    /\ ExplicitIdx(region) = {} /\ RegexIdx(region) = {}
    /\ AwsIdx = {1, 2}
    /\ partitions[1].outputs # partitions[2].outputs
    /\ result = {partitions[1].outputs}

(* The first partition has another id and the name "aws" in its outputs,   *)
(* the second has the id "aws" and another name; the fallback returns the  *)
(* outputs of the second.                                                  *)
FallbackByIdWitness ==
    /\ Returned
    /\ ExplicitIdx(region) = {} /\ RegexIdx(region) = {}
    /\ AwsIdx = {2}
    /\ partitions[1].outputs.name = "aws"
    /\ partitions[2].outputs.name # "aws"
    /\ result = {partitions[2].outputs}

-----------------------------------------------------------------------------
(* The diagnostic collector *)

(* C24: a call of resolve_partition that returns a Partition leaves the    *)
(* collector as it was, and a call that returns nothing appends exactly    *)
(* one message to it.                                                      *)
ReportsExactlyOnEmpty ==
    [][(pc = "idle" /\ pc' = "done") =>
          /\ result' # None => e' = e
          /\ result' = None =>
                /\ Len(e') = Len(e) + 1
                /\ SubSeq(e', 1, Len(e)) = e]_vars

(* After a call that returned nothing and reported once, a call on a       *)
(* catalog without an "aws" partition returns a Partition and the          *)
(* collector still holds the one message.                                  *)
ReportsExactlyOnEmptyWitness ==
    /\ Returned
    /\ result # None
    /\ AwsIdx = {}
    /\ Len(e) = 1

-----------------------------------------------------------------------------
(* Concurrent calls on clones of an EventConnector *)

(* The clones that have popped an event and not yet recorded its request. *)
BetweenPopAndPush == {c \in Callers : clones[c].pc = "popped"}

(* C25: under any interleaving of calls on clones of a connector built     *)
(* from n events, the recorded requests and the remaining events add up to *)
(* n whenever no call is between its pop and its push (a state no other    *)
(* call can act in), every event is remaining, recorded or held by such a  *)
(* call, and the i-th recorded request is paired with the request expected *)
(* by the i-th event given.                                                *)
PopAndRecordAtomic ==
    /\ Len(requests) + Len(data) + Cardinality(BetweenPopAndPush) = Len(events)
    /\ BetweenPopAndPush = {} => Len(requests) + Len(data) = Len(events)
    /\ \A i \in 1..Len(requests) :
           /\ i <= Len(events)
           /\ requests[i].expected = events[i].req

(* Both clones have called; two events that expect different requests were *)
(* given, and both are recorded in the order given.                        *)
PopAndRecordAtomicWitness ==
    /\ Len(events) = 2
    /\ events[1].req # events[2].req
    /\ Len(requests) = 2
    /\ data = <<>>
    /\ requests[1].expected = events[1].req
    /\ requests[2].expected = events[2].req
    /\ \E c \in Callers : clones[c].pc = "pushed"

-----------------------------------------------------------------------------
(* Calls beyond the preloaded events *)

(* C26: every call after the n-th returns the connector error "No more     *)
(* data" and records nothing, so there are never more than n recorded      *)
(* requests; and when more than n calls were made, assert_requests_match   *)
(* returns exactly when the n recorded requests agree with their events:   *)
(* the calls beyond the n-th do not make it panic.                         *)
NoMoreData ==
    /\ Len(requests) = Min({Len(futures), Len(events)})
    /\ \A k \in 1..Len(futures) :
           k > Len(events) =>
               /\ futures[k].res.st = "Err"
               /\ futures[k].res.msg = "No more data"
    /\ \A a \in asserted :
           Len(futures) > Len(events) =>
               (a.outcome.st = "Ok" <=>
                   \A i \in 1..Len(events) :
                       RequestAgrees(requests[i].actual, events[i].req,
                                     a.ignore_headers))

(* One event was preloaded and two calls were made: the second got "No     *)
(* more data", one request is recorded, and assert_requests_match          *)
(* returned.                                                               *)
NoMoreDataWitness ==
    /\ Len(events) = 1
    /\ Len(futures) = 2
    /\ futures[2].res.st = "Err"
    /\ Len(requests) = 1
    /\ \E a \in asserted : a.outcome.st = "Ok"


====
